---- MODULE Spec2Model ----
(***************************************************************************)
(* Production validation framework: the validation orchestrator            *)
(* (validate_production_readiness.py) and the checkers it sequences.       *)
(*                                                                         *)
(* Python values are represented as follows.                               *)
(*   - None is the string "None"; True / False stored in a dict that may   *)
(*     lack the key are the strings "True" / "False".                      *)
(*   - a str whose characters the code inspects (an environment value) is  *)
(*     a sequence of one-character strings; a name or a message, which the *)
(*     code builds with an f-string, is the tuple of the f-string's pieces.*)
(*   - a test dict is a record with the fields name, status, passed,       *)
(*     message, remediation; a key the dict lacks holds None.              *)
(***************************************************************************)
EXTENDS Integers, Sequences, FiniteSets, TLC

VARIABLES
    config,          \* ProductionValidator.config: the validate_sections list
    pc,              \* position of run_validations: "idle", the section whose if is next, "summary", "done"
    results,         \* ProductionValidator.results: a function from the keys set so far
    passed_tests,    \* ProductionValidator.passed_tests
    failed_tests,    \* ProductionValidator.failed_tests
    warning_tests,   \* ProductionValidator.warning_tests
    total_tests,     \* ProductionValidator.total_tests
    observed,        \* what each section that ran found in its environment (files, service, database)
    ran,             \* the sections run so far, in the order they ran
    call,            \* a call of one checker function: its name and arguments
    ret,             \* the value that call returned, None while pending
    load,            \* run_load_test: its position and arguments
    workers,         \* LoadTestWorker.results of each worker and the worker's position
    all_results,     \* all_results of run_load_test
    load_result      \* what run_load_test returned, None while running

vars == <<config, pc, results, passed_tests, failed_tests, warning_tests, total_tests,
          observed, ran, call, ret, load, workers, all_results, load_result>>

None == "None"

(***************************************************************************)
(* Generic helpers                                                         *)
(***************************************************************************)
Range(s) == {s[i] : i \in DOMAIN s}

RECURSIVE SeqSum(_)
SeqSum(s) == IF s = <<>> THEN 0 ELSE Head(s) + SeqSum(Tail(s))

RECURSIVE Flatten(_)
Flatten(ss) == IF ss = <<>> THEN <<>> ELSE Head(ss) \o Flatten(Tail(ss))

Count(s, P(_)) == Cardinality({i \in DOMAIN s : P(s[i])})

\* a test dict {"name", "status", "message"}
StatusTest(name, status, message) ==
    [name |-> name, status |-> status, passed |-> None,
     message |-> message, remediation |-> None]

\* a test dict {"name", "passed", "message"}
PassedTest(name, passed, message) ==
    [name |-> name, status |-> None, passed |-> IF passed THEN "True" ELSE "False",
     message |-> message, remediation |-> None]

HasFailStatus(tests) == \E i \in DOMAIN tests : tests[i].status = "FAIL"

(***************************************************************************)
(* str helpers (character sequences)                                       *)
(***************************************************************************)
UpperAlpha == <<"A","B","C","D","E","F","G","H","I","J","K","L","M",
                "N","O","P","Q","R","S","T","U","V","W","X","Y","Z">>
LowerAlpha == <<"a","b","c","d","e","f","g","h","i","j","k","l","m",
                "n","o","p","q","r","s","t","u","v","w","x","y","z">>
Digits == {"0","1","2","3","4","5","6","7","8","9"}

\* the lower-case letter of each upper-case letter
LowerOf == [c \in {UpperAlpha[i] : i \in 1..26} |->
              LowerAlpha[CHOOSE i \in 1..26 : UpperAlpha[i] = c]]

LowerChar(c) == IF c \in DOMAIN LowerOf THEN LowerOf[c] ELSE c

\* str.lower()
Lower(s) == [i \in DOMAIN s |-> LowerChar(s[i])] \o <<>>

\* sub in s
Contains(s, sub) ==
    \E k \in 0..(Len(s) - Len(sub)) : \A j \in 1..Len(sub) : s[k + j] = sub[j]

RECURSIVE Rep(_, _)
Rep(s, n) == IF n = 0 THEN <<>> ELSE s \o Rep(s, n - 1)

DigitValue(c) == CHOOSE d \in 0..9 : <<"0","1","2","3","4","5","6","7","8","9">>[d + 1] = c

RECURSIVE DigitsValue(_)
DigitsValue(s) ==
    IF s = <<>> THEN 0 ELSE DigitsValue(SubSeq(s, 1, Len(s) - 1)) * 10 + DigitValue(s[Len(s)])

\* int(value) succeeds: an optional sign and at least one digit
IsIntLiteral(s) ==
    LET body == IF s # <<>> /\ s[1] \in {"+", "-"} THEN Tail(s) ELSE s
    IN  body # <<>> /\ \A i \in DOMAIN body : body[i] \in Digits

\* int(value)
IntValue(s) ==
    IF s[1] = "-" THEN 0 - DigitsValue(Tail(s))
    ELSE IF s[1] = "+" THEN DigitsValue(Tail(s))
    ELSE DigitsValue(s)

(***************************************************************************)
(* config_validators/env_validator.py                                      *)
(*                                                                         *)
(* An environment file is [state, vars, headers]: state is "missing" (the  *)
(* path does not exist), "unreadable" (it exists and reading it raises) or *)
(* "ok"; vars maps each variable to its value as dotenv_values gives it:   *)
(* kind "absent" (no such key), "none" (a key without "=") or "str" with   *)
(* the characters s; headers is the set of section names found in the      *)
(* comment lines (parse_env_sections).                                     *)
(***************************************************************************)
AbsentVal == [kind |-> "absent", s |-> <<>>]
NoneVal == [kind |-> "none", s |-> <<>>]
StrVal(s) == [kind |-> "str", s |-> s]

\* one rule of ENV_SCHEMA; has_x says the key x is in the rule dict
Rule(type, required) ==
    [type |-> type, required |-> required,
     has_allowed |-> FALSE, allowed |-> {},
     has_min |-> FALSE, min |-> 0, has_max |-> FALSE, max |-> 0,
     has_min_len |-> FALSE, min_len |-> 0,
     no_sqlite_prod |-> FALSE,
     has_prod_require |-> FALSE, prod_require |-> <<>>]

Allowed(r, values) == [r EXCEPT !.has_allowed = TRUE, !.allowed = values]
Min(r, n) == [r EXCEPT !.has_min = TRUE, !.min = n]
Max(r, n) == [r EXCEPT !.has_max = TRUE, !.max = n]
MinLen(r, n) == [r EXCEPT !.has_min_len = TRUE, !.min_len = n]

S_production == <<"p","r","o","d","u","c","t","i","o","n">>
S_development == <<"d","e","v","e","l","o","p","m","e","n","t">>
S_sqlite == <<"s","q","l","i","t","e">>
S_true == <<"t","r","u","e">>
S_false == <<"f","a","l","s","e">>

ENV_SCHEMA == <<
    [name |-> "CORE PLATFORM CONFIGURATION",
     rules |-> <<
        [var |-> "ENVIRONMENT",
         rule |-> Allowed(Rule("str", TRUE),
                          {S_development, <<"s","t","a","g","i","n","g">>, S_production})],
        [var |-> "DEBUG", rule |-> Rule("bool", TRUE)],
        [var |-> "LOG_LEVEL",
         rule |-> Allowed(Rule("str", TRUE),
                          {<<"D","E","B","U","G">>, <<"I","N","F","O">>,
                           <<"W","A","R","N","I","N","G">>, <<"E","R","R","O","R">>,
                           <<"C","R","I","T","I","C","A","L">>})],
        [var |-> "PLATFORM_NAME", rule |-> Rule("str", TRUE)],
        [var |-> "PLATFORM_VERSION", rule |-> Rule("str", TRUE)] >>],
    [name |-> "DATABASE CONFIGURATION",
     rules |-> <<
        [var |-> "DATABASE_URL", rule |-> [Rule("url", TRUE) EXCEPT !.no_sqlite_prod = TRUE]],
        [var |-> "DATABASE_ENCRYPTION_KEY", rule |-> MinLen(Rule("secret", TRUE), 32)] >>],
    [name |-> "JWT AUTHENTICATION & SECURITY",
     rules |-> <<
        [var |-> "JWT_SECRET_KEY", rule |-> MinLen(Rule("secret", TRUE), 32)],
        [var |-> "JWT_ALGORITHM",
         rule |-> Allowed(Rule("str", TRUE),
                          {<<"H","S","2","5","6">>, <<"R","S","2","5","6">>})],
        [var |-> "JWT_EXPIRATION_HOURS", rule |-> Min(Rule("int", TRUE), 1)],
        [var |-> "ENCRYPTION_KEY", rule |-> MinLen(Rule("secret", TRUE), 32)],
        [var |-> "SSL_ENABLED",
         rule |-> [Rule("bool", FALSE) EXCEPT !.has_prod_require = TRUE,
                                              !.prod_require = S_true]] >>],
    [name |-> "WEB SERVER & API CONFIGURATION",
     rules |-> <<
        [var |-> "API_HOST", rule |-> Rule("str", TRUE)],
        [var |-> "API_PORT", rule |-> Max(Min(Rule("int", TRUE), 1), 65535)],
        [var |-> "API_CORS_ORIGINS", rule |-> Rule("list", TRUE)] >>],
    [name |-> "EMAIL CONFIGURATION",
     rules |-> <<
        [var |-> "SMTP_SERVER", rule |-> Rule("str", TRUE)],
        [var |-> "SMTP_PORT", rule |-> Max(Min(Rule("int", TRUE), 1), 65535)],
        [var |-> "SMTP_USE_TLS", rule |-> Rule("bool", TRUE)],
        [var |-> "SMTP_FROM_EMAIL", rule |-> Rule("email", TRUE)] >>],
    [name |-> "BACKUP & MONITORING",
     rules |-> <<
        [var |-> "BACKUP_ENABLED", rule |-> Rule("bool", TRUE)],
        [var |-> "BACKUP_INTERVAL_HOURS", rule |-> Min(Rule("int", TRUE), 1)],
        [var |-> "HEALTH_CHECK_INTERVAL", rule |-> Min(Rule("int", TRUE), 1)] >>] >>

EnvSectionNames == {ENV_SCHEMA[s].name : s \in DOMAIN ENV_SCHEMA}

EnvVarNames ==
    UNION {{ENV_SCHEMA[s].rules[k].var : k \in DOMAIN ENV_SCHEMA[s].rules} : s \in DOMAIN ENV_SCHEMA}

\* is_placeholder
is_placeholder(value) ==
    LET placeholders == {<<"y","o","u","r","-","s","e","c","r","e","t","-","h","e","r","e">>,
                         <<"R","E","P","L","A","C","E","_","M","E">>,
                         <<"e","x","a","m","p","l","e">>,
                         <<"p","l","a","c","e","h","o","l","d","e","r">>,
                         <<"T","O","D","O">>}
    IN  \/ \E p \in placeholders : Contains(Lower(value), Lower(p))
        \/ Cardinality(Range(value)) < 3

\* value.split("@")[1], for a value that contains "@"
AfterFirstAt(value) ==
    LET first == CHOOSE i \in DOMAIN value :
                    value[i] = "@" /\ \A j \in 1..(i - 1) : value[j] # "@"
        rest == SubSeq(value, first + 1, Len(value))
        stop == IF \E i \in DOMAIN rest : rest[i] = "@"
                THEN (CHOOSE i \in DOMAIN rest :
                         rest[i] = "@" /\ \A j \in 1..(i - 1) : rest[j] # "@") - 1
                ELSE Len(rest)
    IN  SubSeq(rest, 1, stop)

\* validate_type: <<is_valid, msg>>
validate_type(value, rule) ==
    CASE rule.type = "bool" ->
            <<Lower(value) \in {S_true, S_false, <<"1">>, <<"0">>, <<"y","e","s">>, <<"n","o">>},
              <<"Must be a boolean value">>>>
      [] rule.type = "int" ->
            IF ~IsIntLiteral(value) THEN <<FALSE, <<"Must be an integer">>>>
            ELSE IF rule.has_min /\ IntValue(value) < rule.min
                 THEN <<FALSE, <<"Value is below minimum">>>>
            ELSE IF rule.has_max /\ IntValue(value) > rule.max
                 THEN <<FALSE, <<"Value is above maximum">>>>
            ELSE <<TRUE, <<>>>>
      [] rule.type = "url" ->
            IF Contains(value, <<":","/","/">>) THEN <<TRUE, <<>>>>
            ELSE <<FALSE, <<"Must be a valid connection URL">>>>
      [] rule.type = "email" ->
            <<Contains(value, <<"@">>) /\ Contains(AfterFirstAt(value), <<".">>),
              <<"Must be a valid email">>>>
      [] rule.type = "secret" ->
            IF is_placeholder(value) THEN <<FALSE, <<"Value appears to be a placeholder">>>>
            ELSE IF rule.has_min_len /\ Len(value) < rule.min_len
                 THEN <<FALSE, <<"Secret is too short">>>>
            ELSE <<TRUE, <<>>>>
      [] rule.type = "list" ->
            \* len(value.split(",")) > 0: split never returns an empty list
            <<TRUE, <<"Must be a comma-separated list">>>>
      [] OTHER ->
            IF rule.has_allowed /\ value \notin rule.allowed
            THEN <<FALSE, <<"Value not in allowed list">>>>
            ELSE <<TRUE, <<>>>>

\* the test of a variable that is None or "" (the presence check)
EnvPresenceTest(var_name, rule) ==
    IF rule.required
    THEN StatusTest(<<"Variable presence: ", var_name>>, "FAIL",
                    <<"Mandatory variable ", var_name, " is missing">>)
    ELSE StatusTest(<<"Variable presence: ", var_name>>, "PASS",
                    <<"Optional variable ", var_name, " is missing">>)

\* the test of a variable that has a value, without the no_sqlite_prod check
EnvValidationTest_sqlite_allowed(var_name, rule, s, is_production) ==
    LET typed == validate_type(s, rule)
        prodreq == is_production /\ rule.has_prod_require
                   /\ Lower(s) # Lower(rule.prod_require)
        is_valid == typed[1] /\ ~prodreq
        msg == IF prodreq THEN <<"In production, ", var_name, " must be ", "true">>
               ELSE typed[2]
    IN  StatusTest(<<"Variable validation: ", var_name>>,
                   IF is_valid THEN "PASS" ELSE "FAIL",
                   IF is_valid THEN <<var_name, " is valid">>
                   ELSE <<var_name, " invalid: ">> \o msg)

\* the test of a variable that has a value: type and rule validation, then
\* the production specific checks
EnvValidationTest(var_name, rule, s, is_production) ==
    LET typed == validate_type(s, rule)
        sqlite == is_production /\ rule.no_sqlite_prod /\ Contains(Lower(s), S_sqlite)
        prodreq == is_production /\ rule.has_prod_require
                   /\ Lower(s) # Lower(rule.prod_require)
        is_valid == typed[1] /\ ~sqlite /\ ~prodreq
        msg == IF prodreq THEN <<"In production, ", var_name, " must be ", "true">>
               ELSE IF sqlite THEN <<"SQLite is not allowed in production">>
               ELSE typed[2]
    IN  StatusTest(<<"Variable validation: ", var_name>>,
                   IF is_valid THEN "PASS" ELSE "FAIL",
                   IF is_valid THEN <<var_name, " is valid">>
                   ELSE <<var_name, " invalid: ">> \o msg)

\* the body of the loop with the presence check "if val is None:" only
EnvVarTest_none_only(var_name, rule, val, is_production) ==
    IF val.kind # "str"
    THEN EnvPresenceTest(var_name, rule)
    ELSE EnvValidationTest(var_name, rule, val.s, is_production)

\* the body of "for var_name, rule in section_rules.items()": the test one variable adds
EnvVarTest(var_name, rule, val, is_production) ==
    IF val.kind # "str" \/ val.s = <<>>
    THEN EnvPresenceTest(var_name, rule)
    ELSE EnvValidationTest(var_name, rule, val.s, is_production)

\* the tests one schema section adds: the header test, then one test per variable
EnvSectionTests(section, file, is_production) ==
    LET present == section.name \in file.headers
    IN  <<StatusTest(<<"Section check: ", section.name>>,
                     IF present THEN "PASS" ELSE "WARNING",
                     IF present THEN <<"Section '", section.name, "' is documented">>
                     ELSE <<"Section header '", section.name, "' missing from comments">>)>>
        \o [k \in DOMAIN section.rules |->
              EnvVarTest(section.rules[k].var, section.rules[k].rule,
                         file.vars[section.rules[k].var], is_production)]

\* what validate_env_file adds to results["failed_tests"] for a test: a header
\* test always adds to passed_tests ("WARNING doesn't fail the build"), a
\* variable test adds to failed_tests when it is FAIL
EnvCountsAsFailed(t) == t.status = "FAIL"

\* validate_env_file from dotenv_values on, for a path that exists or not
EnvFileChecks(file, required_sections) ==
    IF file.state # "ok" \/ file.vars["ENVIRONMENT"].kind = "none"
    THEN \* dotenv_values / open raises, or None.lower() raises: the except branch,
         \* reached before any test is appended
         [passed |-> FALSE, total |-> 0, passed_tests |-> 0, failed_tests |-> 0,
          tests |-> <<>>, error |-> "exception"]
    ELSE LET env == file.vars["ENVIRONMENT"]
             is_production == env.kind = "str" /\ Lower(env.s) = S_production
             tests == Flatten([s \in DOMAIN ENV_SCHEMA |->
                        IF ENV_SCHEMA[s].name \in required_sections
                        THEN EnvSectionTests(ENV_SCHEMA[s], file, is_production)
                        ELSE <<>>])
             failed == Count(tests, EnvCountsAsFailed)
         IN  [passed |-> failed = 0, total |-> Len(tests),
              passed_tests |-> Len(tests) - failed, failed_tests |-> failed,
              tests |-> tests, error |-> None]

\* validate_env_file without the os.path.exists test
validate_env_file_unchecked(file, required_sections) ==
    EnvFileChecks(file, required_sections)

\* validate_env_file(env_file_path, required_sections)
validate_env_file(file, required_sections) ==
    IF file.state = "missing"
    THEN [passed |-> FALSE, total |-> 1, passed_tests |-> 0, failed_tests |-> 1,
          tests |-> <<StatusTest(<<"File existence check">>, "FAIL",
                                 <<"Environment file does not exist">>)>>,
          error |-> None]
    ELSE EnvFileChecks(file, required_sections)

(***************************************************************************)
(* Environment files the checker is run against                            *)
(***************************************************************************)
\* at most this many variables of a file differ from the valid file
MaxEnvEdits == 1

GoodSecret == Rep(<<"a","B","3","x">>, 8)
ShortSecret == <<"a","B","3","x">>
PlaceholderSecret == <<"R","E","P","L","A","C","E","_","M","E">> \o Rep(<<"a","B","3","x">>, 6)
S_postgres_url == <<"p","o","s","t","g","r","e","s","q","l",":","/","/","d","b">>
S_sqlite_url == <<"s","q","l","i","t","e",":","/","/","/","d","b">>

\* a file in which every variable of the schema is valid (ENVIRONMENT=development)
ValidEnvVars ==
    [v \in EnvVarNames |->
        CASE v = "ENVIRONMENT" -> StrVal(S_development)
          [] v \in {"DEBUG", "SMTP_USE_TLS", "BACKUP_ENABLED"} -> StrVal(S_false)
          [] v = "SSL_ENABLED" -> StrVal(S_true)
          [] v = "LOG_LEVEL" -> StrVal(<<"I","N","F","O">>)
          [] v = "DATABASE_URL" -> StrVal(S_postgres_url)
          [] v \in {"DATABASE_ENCRYPTION_KEY", "JWT_SECRET_KEY", "ENCRYPTION_KEY"} -> StrVal(GoodSecret)
          [] v = "JWT_ALGORITHM" -> StrVal(<<"H","S","2","5","6">>)
          [] v \in {"JWT_EXPIRATION_HOURS", "API_PORT", "SMTP_PORT",
                    "BACKUP_INTERVAL_HOURS", "HEALTH_CHECK_INTERVAL"} -> StrVal(<<"2","4">>)
          [] v = "SMTP_FROM_EMAIL" -> StrVal(<<"a","@","b",".","c">>)
          [] OTHER -> StrVal(<<"p","v","f">>)]

\* the values a variable is given in place of its valid value
EnvCandidates(v) ==
    {AbsentVal, StrVal(<<>>)} \cup
    CASE v = "ENVIRONMENT" -> {NoneVal, StrVal(S_production), StrVal(<<"P","R","O","D","U","C","T","I","O","N">>),
                               StrVal(<<"p","r","o","d">>)}
      [] v \in {"DEBUG", "SSL_ENABLED"} -> {StrVal(S_true), StrVal(S_false), StrVal(<<"Y","e","s">>), StrVal(<<"o","n">>)}
      [] v = "LOG_LEVEL" -> {StrVal(<<"i","n","f","o">>)}
      [] v = "DATABASE_URL" -> {StrVal(S_sqlite_url), StrVal(<<"d","b",".","s","q","l","i","t","e">>)}
      [] v \in {"DATABASE_ENCRYPTION_KEY", "JWT_SECRET_KEY", "ENCRYPTION_KEY"} ->
            {StrVal(ShortSecret), StrVal(PlaceholderSecret), StrVal(Rep(<<"a","b">>, 16))}
      [] v = "JWT_ALGORITHM" -> {StrVal(<<"n","o","n","e">>)}
      [] v \in {"JWT_EXPIRATION_HOURS", "API_PORT"} ->
            {StrVal(<<"0">>), StrVal(<<"-","5">>), StrVal(<<"a","b","c">>), StrVal(<<"7","0","0","0","0">>)}
      [] v = "SMTP_FROM_EMAIL" -> {StrVal(<<"a","@","b">>), StrVal(<<"a",".","b">>), StrVal(<<"a","@","b","@","c",".","d">>)}
      [] OTHER -> {}

RequiredEnvVars ==
    UNION {{ENV_SCHEMA[s].rules[k].var : k \in DOMAIN ENV_SCHEMA[s].rules} : s \in 1..3}

RECURSIVE EnvEdits(_)
\* the variable maps at most n variables away from the valid file, and in
\* production as well as in development
EnvEdits(n) ==
    IF n = 0
    THEN {ValidEnvVars, [ValidEnvVars EXCEPT !["ENVIRONMENT"] = StrVal(S_production)],
          [ValidEnvVars EXCEPT !["ENVIRONMENT"] = StrVal(<<"P","r","o","d","u","c","t","i","o","n">>)]}
    ELSE LET prev == EnvEdits(n - 1)
         IN  prev \cup {[vs EXCEPT ![v] = c] : vs \in prev,
                        <<v, c>> \in UNION {{<<w, d>> : d \in EnvCandidates(w)} : w \in EnvVarNames}}

AllHeaders == EnvSectionNames

EnvFile(state, vs, headers) == [state |-> state, vars |-> vs, headers |-> headers]

EnvFiles ==
    {EnvFile("missing", ValidEnvVars, {}), EnvFile("unreadable", ValidEnvVars, {})}
    \cup {EnvFile("ok", vs, h) : vs \in EnvEdits(MaxEnvEdits),
                                 h \in {AllHeaders, {}, {"DATABASE CONFIGURATION"}}}

\* required_sections of ProductionValidator._run_env_validation
OrchestratorEnvSections ==
    {"CORE PLATFORM CONFIGURATION", "DATABASE CONFIGURATION", "JWT AUTHENTICATION & SECURITY"}

(***************************************************************************)
(* config_validators/db_validator.py                                       *)
(*                                                                         *)
(* A connection string is given by the parts urlparse splits it into:      *)
(* scheme (its pieces between "+"), netloc_ok (FALSE when urlparse raises  *)
(* on the netloc, e.g. an unclosed "[") and query, the "&"-separated       *)
(* parameters, each the list of its pieces between "=".                    *)
(* A database is [driver, connect, tables, schema_error, indexes]: whether *)
(* the driver of the engine is installed, whether connecting and SELECT 1  *)
(* succeed, the tables the catalogue query returns, whether that query     *)
(* raises, and the indexed columns of the customers table.                 *)
(***************************************************************************)
ConnString(scheme, netloc_ok, query) ==
    [scheme |-> scheme, netloc_ok |-> netloc_ok, query |-> query]

\* dict(pairs): the last pair of a key wins
DictOf(pairs) ==
    [k \in {pairs[i][1] : i \in DOMAIN pairs} |->
        pairs[CHOOSE i \in DOMAIN pairs :
                 pairs[i][1] = k /\ \A j \in (i + 1)..Len(pairs) : pairs[j][1] # k][2]]

\* parse_db_url
parse_db_url(cs) ==
    IF ~cs.netloc_ok
    THEN [valid |-> FALSE, type |-> None, query_params |-> <<>>]
    ELSE IF cs.scheme[1] = "sqlite"
    THEN [valid |-> TRUE, type |-> "sqlite", query_params |-> <<>>]
    ELSE IF \E i \in DOMAIN cs.query : Len(cs.query[i]) # 2
    THEN \* dict() of a pair that has not two elements raises ValueError
         [valid |-> FALSE, type |-> None, query_params |-> <<>>]
    ELSE [valid |-> TRUE, type |-> cs.scheme[1], query_params |-> DictOf(cs.query)]

\* check_connection: the 'connected' field
check_connection(db_info, db) ==
    IF db_info.type \in {"postgresql", "mysql", "sqlite"}
    THEN db.driver /\ db.connect
    ELSE FALSE

\* check_sqlite_for_production
check_sqlite_for_production(db_info) == db_info.type = "sqlite"

\* check_connection_pooling
check_connection_pooling(db_info) ==
    IF db_info.type = "sqlite" THEN TRUE
    ELSE IF db_info.type \in {"postgresql", "mysql"}
    THEN "pool_size" \in DOMAIN db_info.query_params
         \/ "max_overflow" \in DOMAIN db_info.query_params
    ELSE FALSE

\* str.lower() of a query parameter value
LowerWord(w) == IF w \in {"True", "TRUE", "true"} THEN "true" ELSE w

\* check_db_encryption
check_db_encryption(db_info) ==
    IF db_info.type = "postgresql"
    THEN "sslmode" \in DOMAIN db_info.query_params
         /\ db_info.query_params["sslmode"] \in {"verify-ca", "verify-full"}
    ELSE IF db_info.type = "mysql"
    THEN "ssl" \in DOMAIN db_info.query_params
         /\ LowerWord(db_info.query_params["ssl"]) = "true"
    ELSE FALSE

required_tables == {"customers", "integrations", "security_logs"}
migration_tables == {"alembic_version", "django_migrations", "flyway_schema_history",
                     "schema_migrations"}

\* check_schema_integrity: the fields validate_database reads
check_schema_integrity(db_info, db) ==
    IF db_info.type \in {"postgresql", "mysql", "sqlite"} /\ db.driver /\ ~db.schema_error
    THEN [passed |-> required_tables \subseteq db.tables,
          has_migrations |-> db.tables \cap migration_tables # {}]
    ELSE \* no driver, or an exception: result['error'] is set and nothing else
         [passed |-> FALSE, has_migrations |-> FALSE]

\* check_performance_indexes: the 'passed' field
check_performance_indexes(db_info, db) ==
    IF db_info.type = "sqlite" /\ db.driver /\ ~db.schema_error
    THEN db.indexes # {}
    ELSE FALSE

PassOr(cond, other) == IF cond THEN "PASS" ELSE other

\* validate_database going on to the later checks whether or not the
\* connection succeeded
validate_database_no_short_circuit(cs, db) ==
    LET db_info == parse_db_url(cs)
        connected == check_connection(db_info, db)
        schema_result == check_schema_integrity(db_info, db)
        first == <<
            StatusTest(<<"Connection string validation">>, "PASS", <<"Connection string is valid">>),
            StatusTest(<<"Production database check">>,
                       IF check_sqlite_for_production(db_info) THEN "WARNING" ELSE "PASS",
                       <<"engine">>),
            StatusTest(<<"Database connection">>, PassOr(connected, "FAIL"),
                       IF connected THEN <<"Connected successfully">> ELSE <<"Connection failed">>) >>
        later == <<
            StatusTest(<<"Schema integrity check">>, PassOr(schema_result.passed, "FAIL"),
                       IF schema_result.passed THEN <<"All required tables found">>
                       ELSE <<"Missing tables">>),
            StatusTest(<<"Database migration system">>,
                       PassOr(schema_result.has_migrations, "WARNING"), <<"migration table">>),
            StatusTest(<<"Performance indexing check">>,
                       PassOr(check_performance_indexes(db_info, db), "WARNING"), <<"indexes">>),
            StatusTest(<<"Connection pooling configuration">>,
                       PassOr(check_connection_pooling(db_info), "WARNING"), <<"pooling">>),
            StatusTest(<<"Database encryption">>,
                       PassOr(check_db_encryption(db_info), "WARNING"), <<"encryption">>) >>
        tests == first \o later
        \* results["failed_tests"]: incremented for a failed connection and a
        \* failed schema check, the only tests that can be FAIL here
        failed == (IF connected THEN 0 ELSE 1)
                  + (IF connected /\ ~schema_result.passed THEN 1 ELSE 0)
        \* results["passed_tests"]: the migration and indexing tests are counted
        \* even when they are WARNING
        passed_n == Cardinality({i \in DOMAIN tests :
                        tests[i].status = "PASS"
                        \/ tests[i].name \in {<<"Database migration system">>,
                                              <<"Performance indexing check">>}})
    IN  IF ~db_info.valid
        THEN [passed |-> FALSE, total |-> 1, passed_tests |-> 0, failed_tests |-> 1,
              tests |-> <<StatusTest(<<"Connection string validation">>, "FAIL",
                                     <<"Invalid connection string">>)>>,
              error |-> None]
        ELSE [passed |-> failed = 0, total |-> Len(tests), passed_tests |-> passed_n,
              failed_tests |-> failed, tests |-> tests, error |-> None]

\* validate_database(connection_string)
validate_database(cs, db) ==
    LET db_info == parse_db_url(cs)
        connected == check_connection(db_info, db)
        schema_result == check_schema_integrity(db_info, db)
        first == <<
            StatusTest(<<"Connection string validation">>, "PASS", <<"Connection string is valid">>),
            StatusTest(<<"Production database check">>,
                       IF check_sqlite_for_production(db_info) THEN "WARNING" ELSE "PASS",
                       <<"engine">>),
            StatusTest(<<"Database connection">>, PassOr(connected, "FAIL"),
                       IF connected THEN <<"Connected successfully">> ELSE <<"Connection failed">>) >>
        later == <<
            StatusTest(<<"Schema integrity check">>, PassOr(schema_result.passed, "FAIL"),
                       IF schema_result.passed THEN <<"All required tables found">>
                       ELSE <<"Missing tables">>),
            StatusTest(<<"Database migration system">>,
                       PassOr(schema_result.has_migrations, "WARNING"), <<"migration table">>),
            StatusTest(<<"Performance indexing check">>,
                       PassOr(check_performance_indexes(db_info, db), "WARNING"), <<"indexes">>),
            StatusTest(<<"Connection pooling configuration">>,
                       PassOr(check_connection_pooling(db_info), "WARNING"), <<"pooling">>),
            StatusTest(<<"Database encryption">>,
                       PassOr(check_db_encryption(db_info), "WARNING"), <<"encryption">>) >>
        tests == IF connected THEN first \o later ELSE first
        \* results["failed_tests"]: incremented for a failed connection and a
        \* failed schema check, the only tests that can be FAIL here
        failed == (IF connected THEN 0 ELSE 1)
                  + (IF connected /\ ~schema_result.passed THEN 1 ELSE 0)
        \* results["passed_tests"]: the migration and indexing tests are counted
        \* even when they are WARNING
        passed_n == Cardinality({i \in DOMAIN tests :
                        tests[i].status = "PASS"
                        \/ tests[i].name \in {<<"Database migration system">>,
                                              <<"Performance indexing check">>}})
    IN  IF ~db_info.valid
        THEN [passed |-> FALSE, total |-> 1, passed_tests |-> 0, failed_tests |-> 1,
              tests |-> <<StatusTest(<<"Connection string validation">>, "FAIL",
                                     <<"Invalid connection string">>)>>,
              error |-> None]
        ELSE [passed |-> failed = 0, total |-> Len(tests), passed_tests |-> passed_n,
              failed_tests |-> failed, tests |-> tests, error |-> None]

Database(driver, connect, tables, schema_error, indexes) ==
    [driver |-> driver, connect |-> connect, tables |-> tables,
     schema_error |-> schema_error, indexes |-> indexes]

GoodDatabase ==
    Database(TRUE, TRUE, required_tables \cup {"alembic_version"}, FALSE, {"customers.email"})

ConnStrings ==
    {ConnString(sc, ok, q) :
        sc \in {<<"postgresql">>, <<"postgresql", "psycopg2">>, <<"mysql">>, <<"sqlite">>,
                <<"oracle">>, <<"">>},
        ok \in BOOLEAN,
        q \in {<<>>, <<<<"sslmode", "verify-full">>>>, <<<<"sslmode", "disable">>>>,
               <<<<"pool_size", "5">>, <<"ssl", "True">>>>, <<<<"sslmode">>>>,
               <<<<"pool_size", "5">>, <<"a", "b", "c">>>>,
               <<<<"sslmode", "disable">>, <<"sslmode", "verify-ca">>>>}}

Databases ==
    {Database(d, c, t, e, ix) :
        d \in BOOLEAN, c \in BOOLEAN,
        t \in {required_tables \cup {"alembic_version"}, required_tables,
               {"customers", "schema_migrations"}, {}},
        e \in BOOLEAN, ix \in {{}, {"customers.email"}, {"customers.name"}}}

(***************************************************************************)
(* security_tests/security_scanner.py                                      *)
(*                                                                         *)
(* The service the scanner probes is a record of what each request finds:  *)
(*   scheme        "https" or "http" (base_url.startswith("https://"))     *)
(*   reach         the first HEAD of the base URL returns                  *)
(*   tls           [ok, protocol, days]: the handshake of check_ssl_tls    *)
(*                 succeeds, the negotiated version, the days the          *)
(*                 certificate has left                                    *)
(*   headers_net   the HEAD of check_security_headers returns              *)
(*   headers       the recommended headers the response carries            *)
(*   cors_net      the OPTIONS of check_cors_configuration returns         *)
(*   cors_issues   the number of wildcard findings (0..2)                  *)
(*   auth          per candidate endpoint [head, burst, post], see below   *)
(*   cookie_net, cookie_issues, expo_net, expo_issues   likewise           *)
(* A request that "does not return" raises requests.RequestException       *)
(* (timeout or connection error).                                          *)
(***************************************************************************)
\* RECOMMENDED_SECURITY_HEADERS: <<header, required>>
RECOMMENDED_SECURITY_HEADERS == <<
    <<"Strict-Transport-Security", TRUE>>,
    <<"Content-Security-Policy", TRUE>>,
    <<"X-Content-Type-Options", TRUE>>,
    <<"X-Frame-Options", TRUE>>,
    <<"X-XSS-Protection", TRUE>>,
    <<"Referrer-Policy", TRUE>>,
    <<"Feature-Policy", FALSE>>,
    <<"Permissions-Policy", FALSE>> >>

SecurityHeaderNames == {RECOMMENDED_SECURITY_HEADERS[i][1] : i \in DOMAIN RECOMMENDED_SECURITY_HEADERS}

\* AUTH_TEST_ENDPOINTS: <<endpoint, "/login" in endpoint or "/auth" in endpoint>>
AUTH_TEST_ENDPOINTS == <<
    <<"/api/auth/login", TRUE>>,
    <<"/api/auth/register", TRUE>>,
    <<"/api/auth/reset-password", TRUE>>,
    <<"/api/users", FALSE>>,
    <<"/api/customers", FALSE>> >>

\* check_ssl_tls: the fields run_security_scan reads
check_ssl_tls(svc) ==
    IF svc.scheme # "https"
    THEN [secure |-> FALSE, has_cert_expiration |-> FALSE, days_remaining |-> 0]
    ELSE IF ~svc.tls.ok
    THEN \* SSLError / socket.error before the certificate is read
         [secure |-> FALSE, has_cert_expiration |-> FALSE, days_remaining |-> 0]
    ELSE [secure |-> ~(svc.tls.days < 30) /\ svc.tls.protocol \notin {"TLSv1", "TLSv1.1"},
          has_cert_expiration |-> TRUE, days_remaining |-> svc.tls.days]

\* twice the weight of a header: 1 for a required header, 0.5 for an optional one
HeaderWeight2(k) == IF RECOMMENDED_SECURITY_HEADERS[k][2] THEN 2 ELSE 1

\* check_security_headers: has_score says result has the key score_percentage;
\* score2 / max2 is the score as a fraction (both doubled to stay integral)
check_security_headers(svc) ==
    IF ~svc.headers_net
    THEN [has_score |-> FALSE, score2 |-> 0, max2 |-> 0, headers_present |-> {}]
    ELSE LET present == {k \in DOMAIN RECOMMENDED_SECURITY_HEADERS :
                            RECOMMENDED_SECURITY_HEADERS[k][1] \in svc.headers}
         IN  [has_score |-> TRUE,
              score2 |-> SeqSum([k \in DOMAIN RECOMMENDED_SECURITY_HEADERS |->
                                   IF k \in present THEN HeaderWeight2(k) ELSE 0]),
              max2 |-> SeqSum([k \in DOMAIN RECOMMENDED_SECURITY_HEADERS |-> HeaderWeight2(k)]),
              headers_present |-> {RECOMMENDED_SECURITY_HEADERS[k][1] : k \in present}]

\* check_cors_configuration: the 'secure' field
check_cors_configuration(svc) ==
    IF ~svc.cors_net THEN FALSE ELSE svc.cors_issues = 0

\* the issues one existing endpoint adds in check_auth_endpoints
AuthEndpointIssues(k, obs) ==
    (IF obs.burst = "fast"
     THEN <<<<"Endpoint ", AUTH_TEST_ENDPOINTS[k][1], " may lack rate limiting">>>>
     ELSE <<>>)
    \o (IF AUTH_TEST_ENDPOINTS[k][2] /\ obs.post = "200"
        THEN <<<<"Endpoint ", AUTH_TEST_ENDPOINTS[k][1], " may accept empty credentials">>>>
        ELSE <<>>)

\* an endpoint at which check_auth_endpoints leaves its loop by RequestException:
\* the HEAD fails, or the HEAD finds the endpoint and one of the ten GETs fails
AuthRaisesAt(obs) == obs.head = "neterr" \/ (obs.head = "found" /\ obs.burst = "neterr")

\* check_auth_endpoints: head is "404" (404 or 405), "found" or "neterr";
\* burst is "fast" (ten GETs in under 2 s), "slow" or "neterr"; post is "200",
\* "denied" or "neterr" (swallowed by the bare except)
check_auth_endpoints(svc) ==
    LET n == Len(AUTH_TEST_ENDPOINTS)
        raises == \E k \in 1..n : AuthRaisesAt(svc.auth[k])
        stop == IF raises
                THEN CHOOSE k \in 1..n :
                        AuthRaisesAt(svc.auth[k]) /\ \A j \in 1..(k - 1) : ~AuthRaisesAt(svc.auth[j])
                ELSE n + 1
        \* the endpoints whose iteration completed
        done == {k \in 1..(stop - 1) : svc.auth[k].head = "found"}
        issues == Flatten([k \in 1..n |->
                     IF k \in done THEN AuthEndpointIssues(k, svc.auth[k]) ELSE <<>>])
    IN  IF raises
        THEN [secure |-> FALSE, endpoints_tested |-> 0, issues |-> issues, error |-> "exception"]
        ELSE [secure |-> issues = <<>>, endpoints_tested |-> Cardinality(done),
              issues |-> issues, error |-> None]

\* check_cookie_security: the 'secure' field, initially True
check_cookie_security(svc) ==
    IF ~svc.cookie_net THEN TRUE ELSE svc.cookie_issues = 0

\* check_sensitive_info_exposure: the 'secure' field, initially True
check_sensitive_info_exposure(svc) ==
    IF ~svc.expo_net THEN TRUE ELSE svc.expo_issues = 0

\* a block of run_security_scan: the tests it appends and what it adds to
\* results["passed_tests"] and results["failed_tests"]
Block(tests, p, f) == [tests |-> tests, p |-> p, f |-> f]

\* a test whose PASS adds to passed_tests and whose FAIL adds to failed_tests
CountedBlock(t) ==
    Block(<<t>>, IF t.status = "PASS" THEN 1 ELSE 0, IF t.status = "FAIL" THEN 1 ELSE 0)

RECURSIVE JoinBlocks(_)
JoinBlocks(bs) ==
    IF bs = <<>> THEN Block(<<>>, 0, 0)
    ELSE LET rest == JoinBlocks(Tail(bs))
         IN  Block(Head(bs).tests \o rest.tests, Head(bs).p + rest.p, Head(bs).f + rest.f)

\* "if check_ssl:" with the TLS test emitted for every scheme
SslBlocks_any_scheme(svc) ==
    LET ssl_results == check_ssl_tls(svc)
        https == svc.scheme = "https"
    IN  <<CountedBlock(StatusTest(<<"HTTPS check">>, PassOr(https, "FAIL"),
                                  IF https THEN <<"Application is using HTTPS">>
                                  ELSE <<"Application is not using HTTPS">>)),
          CountedBlock(StatusTest(<<"SSL/TLS configuration">>,
                                  PassOr(ssl_results.secure, "FAIL"),
                                  IF ssl_results.secure
                                  THEN <<"SSL/TLS is properly configured">>
                                  ELSE <<"SSL/TLS has issues">>))>>

\* "if check_ssl:" of run_security_scan
SslBlocks(svc) ==
    LET ssl_results == check_ssl_tls(svc)
        https == svc.scheme = "https"
        days == ssl_results.days_remaining
    IN  <<CountedBlock(StatusTest(<<"HTTPS check">>, PassOr(https, "FAIL"),
                                  IF https THEN <<"Application is using HTTPS">>
                                  ELSE <<"Application is not using HTTPS">>))>>
        \o (IF https
            THEN <<CountedBlock(StatusTest(<<"SSL/TLS configuration">>,
                                           PassOr(ssl_results.secure, "FAIL"),
                                           IF ssl_results.secure
                                           THEN <<"SSL/TLS is properly configured">>
                                           ELSE <<"SSL/TLS has issues">>))>>
                 \o (IF ssl_results.has_cert_expiration
                     THEN <<CountedBlock(StatusTest(<<"SSL certificate expiration">>,
                                IF days >= 30 THEN "PASS"
                                ELSE IF days >= 7 THEN "WARNING" ELSE "FAIL",
                                <<"Certificate expires in days">>))>>
                     ELSE <<>>)
            ELSE <<>>)

\* the grade of a score that has to exceed 90 / 70 / 50
HeaderGrade_exclusive(score2, max2) ==
    IF max2 > 0 /\ score2 * 100 > 90 * max2 THEN "A"
    ELSE IF max2 > 0 /\ score2 * 100 > 70 * max2 THEN "B"
    ELSE IF max2 > 0 /\ score2 * 100 > 50 * max2 THEN "C"
    ELSE "F"

\* the grade of a score: score_percentage >= 90 / 70 / 50
HeaderGrade(score2, max2) ==
    IF max2 > 0 /\ score2 * 100 >= 90 * max2 THEN "A"
    ELSE IF max2 > 0 /\ score2 * 100 >= 70 * max2 THEN "B"
    ELSE IF max2 > 0 /\ score2 * 100 >= 50 * max2 THEN "C"
    ELSE "F"

critical_headers == <<"Strict-Transport-Security", "Content-Security-Policy",
                      "X-Content-Type-Options">>

\* "if check_headers:" of run_security_scan
HeaderBlocks(svc, scan_severity) ==
    LET header_results == check_security_headers(svc)
        grade == HeaderGrade(header_results.score2, header_results.max2)
        status == CASE grade = "A" -> "PASS"
                    [] grade = "B" -> IF scan_severity = "high" THEN "WARNING" ELSE "PASS"
                    [] grade = "C" -> "WARNING"
                    [] OTHER -> "FAIL"
        cors == check_cors_configuration(svc)
    IN  <<CountedBlock(StatusTest(<<"Security headers check">>, status,
                                  <<"Security headers score: Grade ", grade>>))>>
        \o Flatten([k \in DOMAIN critical_headers |->
              IF critical_headers[k] \notin header_results.headers_present
              THEN <<CountedBlock(StatusTest(
                        <<"Critical security header: ", critical_headers[k]>>,
                        IF scan_severity \in {"medium", "high"} THEN "FAIL" ELSE "WARNING",
                        <<"Critical security header '", critical_headers[k], "' is missing">>))>>
              ELSE <<>>])
        \o <<CountedBlock(StatusTest(<<"CORS configuration check">>, PassOr(cors, "WARNING"),
                                     IF cors THEN <<"CORS is properly configured">>
                                     ELSE <<"CORS configuration issues">>))>>

\* "if check_auth:" of run_security_scan
AuthBlocks(svc) ==
    LET auth_results == check_auth_endpoints(svc)
    IN  IF auth_results.endpoints_tested > 0
        THEN <<CountedBlock(StatusTest(<<"Authentication endpoints check">>,
                                       PassOr(auth_results.secure, "FAIL"),
                                       IF auth_results.secure THEN <<"all secure">>
                                       ELSE <<"Found issues in auth endpoints">>))>>
             \o [k \in DOMAIN auth_results.issues |->
                   CountedBlock(StatusTest(<<"Authentication security issue">>, "FAIL",
                                           auth_results.issues[k]))]
        ELSE <<>>

\* run_security_scan going on to the checks after a failed probe
run_security_scan_probe_ignored(svc, scan_severity, check_ssl, check_headers, check_auth) ==
    LET cookie == check_cookie_security(svc)
        exposure == check_sensitive_info_exposure(svc)
        all == JoinBlocks(
           <<CountedBlock(StatusTest(<<"Base URL accessibility check">>,
                                     PassOr(svc.reach, "FAIL"),
                                     IF svc.reach THEN <<"Base URL is accessible">>
                                     ELSE <<"Base URL is not accessible">>))>>
           \o (IF check_ssl THEN SslBlocks(svc) ELSE <<>>)
           \o (IF check_headers THEN HeaderBlocks(svc, scan_severity) ELSE <<>>)
           \o (IF check_auth THEN AuthBlocks(svc) ELSE <<>>)
           \o <<CountedBlock(StatusTest(<<"Cookie security flags">>,
                                        PassOr(cookie, "WARNING"),
                                        IF cookie THEN <<"Cookies are securely configured">>
                                        ELSE <<"Cookie issues">>)),
                CountedBlock(StatusTest(<<"Information disclosure scan">>,
                                        PassOr(exposure, "FAIL"),
                                        IF exposure THEN <<"No sensitive info exposure detected">>
                                        ELSE <<"Exposure issues">>))>>)
    IN  [passed |-> all.f = 0, total |-> Len(all.tests), passed_tests |-> all.p,
         failed_tests |-> all.f, tests |-> all.tests, error |-> None]

\* run_security_scan(base_url, scan_severity, check_ssl, check_headers, check_auth)
run_security_scan(svc, scan_severity, check_ssl, check_headers, check_auth) ==
    IF ~svc.reach
    THEN [passed |-> FALSE, total |-> 1, passed_tests |-> 0, failed_tests |-> 1,
          tests |-> <<StatusTest(<<"Base URL accessibility check">>, "FAIL",
                                 <<"Base URL is not accessible">>)>>,
          error |-> None]
    ELSE LET cookie == check_cookie_security(svc)
             exposure == check_sensitive_info_exposure(svc)
             all == JoinBlocks(
                <<CountedBlock(StatusTest(<<"Base URL accessibility check">>, "PASS",
                                          <<"Base URL is accessible">>))>>
                \o (IF check_ssl THEN SslBlocks(svc) ELSE <<>>)
                \o (IF check_headers THEN HeaderBlocks(svc, scan_severity) ELSE <<>>)
                \o (IF check_auth THEN AuthBlocks(svc) ELSE <<>>)
                \o <<CountedBlock(StatusTest(<<"Cookie security flags">>,
                                             PassOr(cookie, "WARNING"),
                                             IF cookie THEN <<"Cookies are securely configured">>
                                             ELSE <<"Cookie issues">>)),
                     CountedBlock(StatusTest(<<"Information disclosure scan">>,
                                             PassOr(exposure, "FAIL"),
                                             IF exposure THEN <<"No sensitive info exposure detected">>
                                             ELSE <<"Exposure issues">>))>>)
         IN  [passed |-> all.f = 0, total |-> Len(all.tests), passed_tests |-> all.p,
              failed_tests |-> all.f, tests |-> all.tests, error |-> None]

(***************************************************************************)
(* api_tests/api_validator.py                                              *)
(*                                                                         *)
(* A decoded JSON value is [t, v]: t is type(value).__name__ and v the     *)
(* <<key, value>> pairs of a dict or of a list, whose elements have the    *)
(* key "" (<<>> for the other types, whose content the validator never     *)
(* reads).                                                                 *)
(* A schema is [k, tag, sub]: k = "type" with the type's name in tag;      *)
(* k = "list" with the list's elements in sub, as <<"", schema>> pairs;    *)
(* k = "dict" with the <<key, schema>> pairs in sub, in insertion order;   *)
(* k = "other" for any other object.                                       *)
(***************************************************************************)
Val(t, v) == [t |-> t, v |-> v]
TypeSchema(tag) == [k |-> "type", tag |-> tag, sub |-> <<>>]
ListVal(items) == [t |-> "list", v |-> [i \in DOMAIN items |-> <<"", items[i]>>]]
ListSchema(items) ==
    [k |-> "list", tag |-> None, sub |-> [i \in DOMAIN items |-> <<"", items[i]>>]]
DictSchema(pairs) == [k |-> "dict", tag |-> None, sub |-> pairs]
OtherSchema == [k |-> "other", tag |-> None, sub |-> <<>>]

\* isinstance(data, tag): bool is a subclass of int
IsInstance(data, tag) == data.t = tag \/ (tag = "int" /\ data.t = "bool")

\* key in data, data[key]
HasKey(data, key) == \E i \in DOMAIN data.v : data.v[i][1] = key
GetKey(data, key) == data.v[CHOOSE i \in DOMAIN data.v : data.v[i][1] = key][2]

\* str(i) for a list index
IndexStr(i) == <<"0", "1", "2", "3", "4", "5", "6", "7">>[i + 1]

RECURSIVE validate_schema_first_item(_, _)
\* validate_schema with the loop over the list left after its first item
validate_schema_first_item(data, schema) ==
    CASE schema.k = "type" ->
            IF ~IsInstance(data, schema.tag)
            THEN <<FALSE, <<"Expected ", schema.tag, ", got ", data.t>>>>
            ELSE <<TRUE, <<>>>>
      [] schema.k = "list" ->
            IF data.t # "list" THEN <<FALSE, <<"Expected list, got ", data.t>>>>
            ELSE IF schema.sub = <<>> THEN <<TRUE, <<>>>>
            ELSE LET r == [i \in DOMAIN data.v \cap {1} |->
                             validate_schema_first_item(data.v[i][2], schema.sub[1][2])]
                 IN  IF \E i \in DOMAIN r : ~r[i][1]
                     THEN LET i == CHOOSE i \in DOMAIN r :
                                      ~r[i][1] /\ \A j \in 1..(i - 1) : r[j][1]
                          IN  <<FALSE, <<"item[", IndexStr(i - 1), "] -> ">> \o r[i][2]>>
                     ELSE <<TRUE, <<>>>>
      [] schema.k = "dict" ->
            IF data.t # "dict" THEN <<FALSE, <<"Expected dict, got ", data.t>>>>
            ELSE LET r == [i \in DOMAIN schema.sub |->
                             IF ~HasKey(data, schema.sub[i][1])
                             THEN <<FALSE, <<"Missing required key: '", schema.sub[i][1], "'">>>>
                             ELSE LET sub == validate_schema_first_item(GetKey(data, schema.sub[i][1]),
                                                             schema.sub[i][2])
                                  IN  IF sub[1] THEN sub
                                      ELSE <<FALSE, <<"'", schema.sub[i][1], "' -> ">> \o sub[2]>>]
                 IN  IF \E i \in DOMAIN r : ~r[i][1]
                     THEN r[CHOOSE i \in DOMAIN r : ~r[i][1] /\ \A j \in 1..(i - 1) : r[j][1]]
                     ELSE <<TRUE, <<>>>>
      [] OTHER -> <<TRUE, <<>>>>

RECURSIVE validate_schema(_, _)
\* validate_schema(data, schema): <<valid, message>>
validate_schema(data, schema) ==
    CASE schema.k = "type" ->
            IF ~IsInstance(data, schema.tag)
            THEN <<FALSE, <<"Expected ", schema.tag, ", got ", data.t>>>>
            ELSE <<TRUE, <<>>>>
      [] schema.k = "list" ->
            IF data.t # "list" THEN <<FALSE, <<"Expected list, got ", data.t>>>>
            ELSE IF schema.sub = <<>> THEN <<TRUE, <<>>>>
            ELSE LET r == [i \in DOMAIN data.v |->
                             validate_schema(data.v[i][2], schema.sub[1][2])]
                 IN  IF \E i \in DOMAIN r : ~r[i][1]
                     THEN LET i == CHOOSE i \in DOMAIN r :
                                      ~r[i][1] /\ \A j \in 1..(i - 1) : r[j][1]
                          IN  <<FALSE, <<"item[", IndexStr(i - 1), "] -> ">> \o r[i][2]>>
                     ELSE <<TRUE, <<>>>>
      [] schema.k = "dict" ->
            IF data.t # "dict" THEN <<FALSE, <<"Expected dict, got ", data.t>>>>
            ELSE LET r == [i \in DOMAIN schema.sub |->
                             IF ~HasKey(data, schema.sub[i][1])
                             THEN <<FALSE, <<"Missing required key: '", schema.sub[i][1], "'">>>>
                             ELSE LET sub == validate_schema(GetKey(data, schema.sub[i][1]),
                                                             schema.sub[i][2])
                                  IN  IF sub[1] THEN sub
                                      ELSE <<FALSE, <<"'", schema.sub[i][1], "' -> ">> \o sub[2]>>]
                 IN  IF \E i \in DOMAIN r : ~r[i][1]
                     THEN r[CHOOSE i \in DOMAIN r : ~r[i][1] /\ \A j \in 1..(i - 1) : r[j][1]]
                     ELSE <<TRUE, <<>>>>
      [] OTHER -> <<TRUE, <<>>>>

\* the keyword arguments of validate_endpoint (method, payload and
\* expected_content_type are those of the defaults: GET, None, application/json)
EndpointConfig(endpoint, expected_status, has_schema, schema, required_fields, auth, sla_ms) ==
    [endpoint |-> endpoint, expected_status |-> expected_status,
     has_schema |-> has_schema, expected_schema |-> schema,
     required_fields |-> required_fields, authentication_required |-> auth,
     sla_ms |-> sla_ms]

\* APIEndpointValidator.sla_ms, the default of __init__
DefaultSlaMs == 500

\* "Test 4" with a repeat that does not return counted as a failure
AuthEnforcementTest_refusal_fails(noauth) ==
    PassedTest(<<"Auth enforcement">>, noauth \in {"401", "403"},
               IF noauth \in {"401", "403"}
               THEN <<"Access denied as expected (Got ", noauth, ")">>
               ELSE <<"Endpoint allowed unauthorized access">>)

\* "Test 4: Authentication enforcement" of validate_endpoint: noauth is the
\* status of the request repeated without the Authorization header, "neterr"
\* when the repeat raises
AuthEnforcementTest(noauth) ==
    IF noauth = "neterr"
    THEN PassedTest(<<"Auth enforcement">>, TRUE, <<"Connection refused without auth">>)
    ELSE PassedTest(<<"Auth enforcement">>, noauth \in {"401", "403"},
                    IF noauth \in {"401", "403"}
                    THEN <<"Access denied as expected (Got ", noauth, ")">>
                    ELSE <<"Endpoint allowed unauthorized access">>)

\* validate_endpoint with the verdict taken before "Test 5" is appended
validate_endpoint_before_sla(cfg, ans) ==
    LET early == <<PassedTest(<<"Tracking ID support">>, ans.echo \/ ans.status < 500,
                              <<"API should ideally echo or support X-Request-ID">>),
                   PassedTest(<<"Status code check">>, ans.status = cfg.expected_status,
                              <<"Expected status, got status">>),
                   PassedTest(<<"Content type check">>, ans.json_type,
                              <<"Expected content type, got content type">>)>>
        sla == PassedTest(<<"SLA Response time">>,
                          ans.ms <= (IF cfg.sla_ms = 0 THEN DefaultSlaMs ELSE cfg.sla_ms),
                          <<"ms (SLA)">>)
    IN  IF ~ans.net
        THEN [endpoint |-> cfg.endpoint, passed |-> FALSE, error |-> "exception",
              tests |-> <<PassedTest(<<"Network connectivity">>, FALSE, <<"Request failed">>)>>]
        ELSE [endpoint |-> cfg.endpoint, error |-> None, tests |-> Append(early, sla),
              passed |-> \A k \in DOMAIN early : early[k].passed = "True"]

\* What one endpoint answers: net (the request returns), status, json_type
\* (the Content-Type is application/json), is_json and body (response.json()
\* succeeds, and its value), echo (X-Request-ID is among the response
\* headers), ms (the request's duration), noauth ("neterr" or the status of
\* the request repeated without Authorization).
\* APIEndpointValidator.validate_endpoint
validate_endpoint(cfg, ans) ==
    LET target_sla == IF cfg.sla_ms = 0 THEN DefaultSlaMs ELSE cfg.sla_ms
        schema_check == validate_schema(ans.body, cfg.expected_schema)
        \* [f for f in required_fields if f not in response_json], for a body
        \* that is a dict
        missing == {f \in cfg.required_fields : ~HasKey(ans.body, f)}
        tests ==
            <<PassedTest(<<"Tracking ID support">>, ans.echo \/ ans.status < 500,
                         <<"API should ideally echo or support X-Request-ID">>),
              PassedTest(<<"Status code check">>, ans.status = cfg.expected_status,
                         <<"Expected status, got status">>),
              PassedTest(<<"Content type check">>, ans.json_type,
                         <<"Expected content type, got content type">>)>>
            \o (IF ans.is_json /\ cfg.has_schema
                THEN <<PassedTest(<<"Schema validation">>, schema_check[1],
                                  IF schema_check[1] THEN <<"Schema matches">>
                                  ELSE <<"Schema mismatch: ">> \o schema_check[2])>>
                ELSE IF ans.is_json /\ cfg.required_fields # {}
                THEN <<PassedTest(<<"Required fields check">>, missing = {},
                                  IF missing = {} THEN <<"All fields present">>
                                  ELSE <<"Missing fields">>)>>
                ELSE <<>>)
            \o (IF cfg.authentication_required
                THEN <<AuthEnforcementTest(ans.noauth)>> ELSE <<>>)
            \o <<PassedTest(<<"SLA Response time">>, ans.ms <= target_sla, <<"ms (SLA)">>)>>
    IN  IF ~ans.net
        THEN [endpoint |-> cfg.endpoint, passed |-> FALSE, error |-> "exception",
              tests |-> <<PassedTest(<<"Network connectivity">>, FALSE, <<"Request failed">>)>>]
        ELSE [endpoint |-> cfg.endpoint, error |-> None, tests |-> tests,
              passed |-> \A k \in DOMAIN tests : tests[k].passed = "True"]

\* APIEndpointValidator.validate_endpoints: the endpoints are <<cfg, answer>> pairs
validate_endpoints(endpoints) ==
    LET rs == [k \in DOMAIN endpoints |-> validate_endpoint(endpoints[k][1], endpoints[k][2])]
        passed_endpoints == Cardinality({k \in DOMAIN rs : rs[k].passed})
    IN  [passed |-> passed_endpoints = Len(endpoints), total |-> Len(endpoints),
         passed_endpoints |-> passed_endpoints, endpoints |-> rs]

\* common_paths of discover_api_endpoints
common_paths == <<"/", "/api", "/api/v1", "/api/v2", "/health", "/status", "/docs",
                  "/api/docs", "/swagger", "/api/users", "/api/auth/login",
                  "/api/auth/register", "/api/products", "/api/orders">>

\* APIEndpointValidator.discover_api_endpoints: probe[k] is what the HEAD of
\* common_paths[k] gives, [net, status] (a request that does not return is
\* skipped by the bare except); the result is the list of the indices of the
\* paths kept
discover_api_endpoints(probe) ==
    LET keep == {k \in DOMAIN common_paths : probe[k].net /\ probe[k].status < 404}
        F[k \in 0..Len(common_paths)] ==
            IF k = 0 THEN <<>> ELSE IF k \in keep THEN Append(F[k - 1], k) ELSE F[k - 1]
    IN  F[Len(common_paths)]

\* validate_api_endpoints(base_url, auto_discover=True), i.e.
\* auto_validate_endpoints: api.probe are the discovery answers and
\* api.answer[k] is what the GET of common_paths[k] answers
validate_api_endpoints(api) ==
    LET discovered == discover_api_endpoints(api.probe)
    IN  validate_endpoints(
            [j \in DOMAIN discovered |->
                <<EndpointConfig(common_paths[discovered[j]], 200, FALSE, OtherSchema, {}, FALSE, 0),
                  api.answer[discovered[j]]>>])

(***************************************************************************)
(* monitoring_tests/monitoring_validator.py                                *)
(*                                                                         *)
(* mon.metrics is what GET /metrics gives: [net, status, help, type,       *)
(* metrics] with the exposition markers and the core metric names found in *)
(* the body; mon.trace is what GET url gives: [net, found], found saying   *)
(* that a tracing header is among the response headers.                    *)
(***************************************************************************)
important_metrics == <<"process_cpu_seconds_total", "process_resident_memory_bytes",
                       "http_requests_total", "http_request_duration_seconds">>

\* check_prometheus_metrics: its tests
check_prometheus_metrics(m) ==
    IF ~m.net
    THEN <<StatusTest(<<"Prometheus metrics endpoint accessibility">>, "FAIL",
                      <<"Error accessing metrics endpoint">>)>>
    ELSE IF m.status = 200
    THEN <<StatusTest(<<"Prometheus metrics endpoint availability">>, "PASS",
                      <<"Metrics endpoint /metrics is accessible">>),
           StatusTest(<<"Prometheus metric format validation">>,
                      PassOr(m.help /\ m.type, "WARNING"),
                      IF m.help /\ m.type THEN <<"Metrics follow Prometheus format">>
                      ELSE <<"Metrics found but format may be incorrect">>)>>
         \o [k \in DOMAIN important_metrics |->
               StatusTest(<<"Core metric check: ", important_metrics[k]>>,
                          PassOr(important_metrics[k] \in m.metrics, "WARNING"),
                          IF important_metrics[k] \in m.metrics
                          THEN <<"Metric '", important_metrics[k], "' is being collected">>
                          ELSE <<"Metric '", important_metrics[k], "' is missing">>)]
    ELSE <<StatusTest(<<"Prometheus metrics endpoint check">>,
                      IF m.status = 404 THEN "FAIL" ELSE "WARNING",
                      <<"Metrics endpoint returned status">>)>>

\* check_trace_context: its tests (none when the request raises)
check_trace_context(t) ==
    IF ~t.net THEN <<>>
    ELSE <<StatusTest(<<"Trace context headers check">>, PassOr(t.found, "WARNING"),
                      IF t.found THEN <<"Found trace headers">>
                      ELSE <<"No standard trace context headers found in response">>)>>

IsPassStatus(t) == t.status = "PASS"
IsFailStatus(t) == t.status = "FAIL"

\* validate_monitoring(url)
validate_monitoring(mon) ==
    LET all_tests == check_prometheus_metrics(mon.metrics) \o check_trace_context(mon.trace)
    IN  [passed |-> Count(all_tests, IsFailStatus) = 0, total |-> Len(all_tests),
         passed_tests |-> Count(all_tests, IsPassStatus), tests |-> all_tests]

(***************************************************************************)
(* logging_tests/logging_validator.py                                      *)
(*                                                                         *)
(* lg.config is the logging configuration file found first: [found, json,  *)
(* readable, debug] (debug: the text has DEBUG and not LOG_LEVEL);         *)
(* lg.dir is the log directory: [exists, files, readable, json, pii] with  *)
(* files the number of *.log files, whether the newest can be read and     *)
(* starts with a JSON line, and pii the number of sensitive matches.       *)
(***************************************************************************)
\* check_logging_config: its tests
check_logging_config(c) ==
    IF ~c.found
    THEN <<StatusTest(<<"Logging configuration exists">>, "WARNING",
                      <<"No dedicated logging configuration file found">>)>>
    ELSE <<StatusTest(<<"JSON logging configuration">>, PassOr(c.json, "WARNING"),
                      <<"Using file for logging configuration">>)>>
         \o (IF ~c.readable THEN <<>>
             ELSE <<StatusTest(<<"Production log level">>, PassOr(~c.debug, "WARNING"),
                               IF c.debug THEN <<"DEBUG log level detected in configuration">>
                               ELSE <<"No hardcoded DEBUG level in configuration">>)>>)

\* check_log_files: its tests
check_log_files(d) ==
    IF ~d.exists
    THEN <<StatusTest(<<"Log directory exists">>, "WARNING", <<"Log directory not found">>)>>
    ELSE IF d.files = 0
    THEN <<StatusTest(<<"Log files exist">>, "PASS", <<"No log files found in directory">>)>>
    ELSE IF ~d.readable THEN <<>>
    ELSE <<StatusTest(<<"JSON log format verification">>, PassOr(d.json, "WARNING"),
                      IF d.json THEN <<"Log file is in JSON format">>
                      ELSE <<"Log file is NOT in JSON format">>)>>

\* check_pii_in_logs: its tests
check_pii_in_logs(d) ==
    IF ~d.exists \/ d.files = 0 THEN <<>>
    ELSE <<StatusTest(<<"Log PII data check">>, PassOr(d.pii = 0, "FAIL"),
                      IF d.pii = 0 THEN <<"No PII or secrets found in logs">>
                      ELSE <<"Issues found">>)>>

\* validate_logging(log_dir, config_file)
validate_logging(lg) ==
    LET all_tests == check_logging_config(lg.config) \o check_log_files(lg.dir)
                     \o check_pii_in_logs(lg.dir)
    IN  [passed |-> Count(all_tests, IsFailStatus) = 0, total |-> Len(all_tests),
         passed_tests |-> Count(all_tests, IsPassStatus), tests |-> all_tests]

(***************************************************************************)
(* deployment_checks/deployment_validator.py                               *)
(*                                                                         *)
(* The project tree is a record of what the glob searches find: ci (a CI   *)
(* configuration), ci_deploy (a deployment keyword in it), container (a    *)
(* container configuration), dockerfile (a file named Dockerfile among the *)
(* docker ones), docker_issues (the number of findings in it), build (a    *)
(* build manifest), npm (package.json), npm_build (a build script in it),  *)
(* static (a static-assets directory), minified (minified assets in it),   *)
(* env_any (an environment file), env_dotenv (.env), env_example           *)
(* (.env.example or .env.template).                                        *)
(***************************************************************************)
\* a sub-section result: result["passed"] = all(test["passed"] ...)
DeploySection(name, tests) ==
    [name |-> name, tests |-> tests,
     passed |-> \A k \in DOMAIN tests : tests[k].passed = "True"]

\* DeploymentValidator.check_ci_cd_configuration
check_ci_cd_configuration(tree) ==
    DeploySection("CI/CD Configuration",
        <<PassedTest(<<"CI/CD configuration exists">>, tree.ci,
                     IF tree.ci THEN <<"Found configurations">>
                     ELSE <<"No CI/CD configuration found">>)>>
        \o (IF tree.ci
            THEN <<PassedTest(<<"CI/CD has deployment steps">>, tree.ci_deploy,
                              IF tree.ci_deploy
                              THEN <<"CI/CD configuration contains deployment steps">>
                              ELSE <<"No deployment steps found in CI/CD configuration">>)>>
            ELSE <<>>))

\* DeploymentValidator.check_container_configuration
check_container_configuration(tree) ==
    DeploySection("Container Configuration",
        <<PassedTest(<<"Container configuration exists">>, tree.container,
                     IF tree.container THEN <<"Found configurations">>
                     ELSE <<"No container configuration found">>)>>
        \o (IF tree.dockerfile
            THEN <<PassedTest(<<"Dockerfile best practices">>, tree.docker_issues = 0,
                              IF tree.docker_issues = 0 THEN <<"Dockerfile follows best practices">>
                              ELSE <<"Dockerfile issues">>)>>
            ELSE <<>>))

\* DeploymentValidator.check_build_configuration
check_build_configuration(tree) ==
    DeploySection("Build Configuration",
        <<PassedTest(<<"Build tool configuration exists">>, tree.build,
                     IF tree.build THEN <<"Found configurations">>
                     ELSE <<"No build tool configuration found">>)>>
        \o (IF tree.npm
            THEN <<PassedTest(<<"NPM build script exists">>, tree.npm_build,
                              IF tree.npm_build THEN <<"package.json has build script">>
                              ELSE <<"package.json is missing build script">>)>>
            ELSE <<>>))

\* DeploymentValidator.check_static_assets
check_static_assets(tree) ==
    DeploySection("Static Assets",
        <<PassedTest(<<"Static assets directory exists">>, tree.static,
                     IF tree.static THEN <<"Found static directories">>
                     ELSE <<"No static assets directory found">>)>>
        \o (IF tree.static
            THEN <<PassedTest(<<"Minified assets check">>, tree.minified,
                              IF tree.minified THEN <<"Project has minified JS/CSS assets">>
                              ELSE <<"No minified assets found">>)>>
            ELSE <<>>))

\* DeploymentValidator.check_environment_config
check_environment_config(tree) ==
    DeploySection("Environment Configuration",
        <<PassedTest(<<"Environment file exists">>, tree.env_any,
                     IF tree.env_any THEN <<"Found environment files">>
                     ELSE <<"No environment configuration file found">>)>>
        \o (IF tree.env_any /\ tree.env_dotenv /\ ~tree.env_example
            THEN <<PassedTest(<<"Environment example file">>, FALSE,
                              <<"Missing .env.example or .env.template file">>)>>
            ELSE <<>>))

IsPassedTrue(t) == t.passed = "True"

\* validate_deployment_readiness(project_root)
validate_deployment_readiness(tree) ==
    LET sections == <<check_ci_cd_configuration(tree), check_container_configuration(tree),
                      check_build_configuration(tree), check_static_assets(tree),
                      check_environment_config(tree)>>
        total == SeqSum([k \in DOMAIN sections |-> Len(sections[k].tests)])
        passed_n == SeqSum([k \in DOMAIN sections |-> Count(sections[k].tests, IsPassedTrue)])
    IN  [passed |-> passed_n = total, total |-> total, passed_tests |-> passed_n,
         sections |-> sections]

(***************************************************************************)
(* Python float arithmetic (IEEE 754 binary64, round to nearest, ties to   *)
(* even) on the non-negative values the load tester computes.              *)
(*                                                                         *)
(* A natural number of any size is the sequence of its digits in base      *)
(* LimbBase, lowest first, without a highest digit 0.  A float is [m, e],  *)
(* the number m * 2^e, m a natural number that is odd or zero and has at   *)
(* most MantissaBits bits.                                                 *)
(***************************************************************************)
LimbBits == 15
LimbBase == 2^LimbBits
MantissaBits == 53

Limb(a, i) == IF i <= Len(a) THEN a[i] ELSE 0

RECURSIVE BigStrip(_)
BigStrip(a) ==
    IF a # <<>> /\ a[Len(a)] = 0 THEN BigStrip(SubSeq(a, 1, Len(a) - 1)) ELSE a

RECURSIVE BigOf(_)
\* the natural number k < 2^31 as digits
BigOf(k) == IF k = 0 THEN <<>> ELSE <<k % LimbBase>> \o BigOf(k \div LimbBase)

RECURSIVE BigToInt(_)
BigToInt(a) == IF a = <<>> THEN 0 ELSE a[1] + LimbBase * BigToInt(Tail(a))

RECURSIVE BigAddFrom(_, _, _, _)
BigAddFrom(a, b, i, carry) ==
    IF i > Len(a) /\ i > Len(b)
    THEN IF carry = 0 THEN <<>> ELSE <<carry>>
    ELSE LET s == Limb(a, i) + Limb(b, i) + carry
         IN  <<s % LimbBase>> \o BigAddFrom(a, b, i + 1, s \div LimbBase)

BigAdd(a, b) == BigAddFrom(a, b, 1, 0)

RECURSIVE BigSubFrom(_, _, _, _)
BigSubFrom(a, b, i, borrow) ==
    IF i > Len(a) THEN <<>>
    ELSE LET d == a[i] - Limb(b, i) - borrow
         IN  IF d < 0 THEN <<d + LimbBase>> \o BigSubFrom(a, b, i + 1, 1)
             ELSE <<d>> \o BigSubFrom(a, b, i + 1, 0)

\* a - b, for a >= b
BigSub(a, b) == BigStrip(BigSubFrom(a, b, 1, 0))

RECURSIVE BigMulSmallFrom(_, _, _, _)
BigMulSmallFrom(a, k, i, carry) ==
    IF i > Len(a)
    THEN IF carry = 0 THEN <<>> ELSE <<carry>>
    ELSE LET s == a[i] * k + carry
         IN  <<s % LimbBase>> \o BigMulSmallFrom(a, k, i + 1, s \div LimbBase)

\* a * k, for k <= LimbBase
BigMulSmall(a, k) == IF k = 0 THEN <<>> ELSE BigMulSmallFrom(a, k, 1, 0)

\* a * LimbBase^n
BigShiftLimbs(a, n) == IF a = <<>> THEN <<>> ELSE [i \in 1..n |-> 0] \o a

RECURSIVE BigMulFrom(_, _, _)
BigMulFrom(a, b, i) ==
    IF i > Len(b) THEN <<>>
    ELSE BigAdd(BigShiftLimbs(BigMulSmall(a, b[i]), i - 1), BigMulFrom(a, b, i + 1))

BigMul(a, b) == BigMulFrom(a, b, 1)

RECURSIVE BigDivSmallFrom(_, _, _, _)
\* <<quotient digits 1..i, remainder>> of the digits 1..i of a below the
\* remainder r of the higher digits
BigDivSmallFrom(a, d, i, r) ==
    IF i = 0 THEN <<<<>>, r>>
    ELSE LET cur == r * LimbBase + a[i]
             rest == BigDivSmallFrom(a, d, i - 1, cur % d)
         IN  <<Append(rest[1], cur \div d), rest[2]>>

\* <<a \div d, a % d>>, for 0 < d <= LimbBase
BigDivSmall(a, d) ==
    LET qr == BigDivSmallFrom(a, d, Len(a), 0)
    IN  <<BigStrip(qr[1]), qr[2]>>

RECURSIVE SmallBits(_)
SmallBits(k) == IF k = 0 THEN 0 ELSE 1 + SmallBits(k \div 2)

\* the number of bits of a
BigBits(a) == IF a = <<>> THEN 0 ELSE LimbBits * (Len(a) - 1) + SmallBits(a[Len(a)])

\* a * 2^s
BigShl(a, s) == BigShiftLimbs(BigMulSmall(a, 2^(s % LimbBits)), s \div LimbBits)

\* a \div 2^s
BigShr(a, s) ==
    IF s \div LimbBits >= Len(a) THEN <<>>
    ELSE BigDivSmall(SubSeq(a, (s \div LimbBits) + 1, Len(a)), 2^(s % LimbBits))[1]

\* a < b
BigLess(a, b) ==
    IF Len(a) # Len(b) THEN Len(a) < Len(b)
    ELSE \E i \in DOMAIN a : a[i] < b[i] /\ \A j \in (i + 1)..Len(a) : a[j] = b[j]

Flt(m, e) == [m |-> m, e |-> e]

RECURSIVE TrailingZeros(_)
TrailingZeros(k) == IF k % 2 = 1 THEN 0 ELSE 1 + TrailingZeros(k \div 2)

RECURSIVE FNorm(_, _)
\* m * 2^e with m made odd
FNorm(m, e) ==
    IF m = <<>> THEN Flt(<<>>, 0)
    ELSE IF m[1] = 0 THEN FNorm(Tail(m), e + LimbBits)
    ELSE Flt(BigDivSmall(m, 2^TrailingZeros(m[1]))[1], e + TrailingZeros(m[1]))

\* the float nearest to m * 2^e, ties to even
FRound(m, e) ==
    IF BigBits(m) <= MantissaBits THEN FNorm(m, e)
    ELSE LET s == BigBits(m) - MantissaBits
             q == BigShr(m, s)
             twice == BigMulSmall(BigSub(m, BigShl(q, s)), 2)
             unit == BigShl(<<1>>, s)
             up == BigLess(unit, twice) \/ (twice = unit /\ q[1] % 2 = 1)
         IN  FNorm(IF up THEN BigAdd(q, <<1>>) ELSE q, e + s)

\* float(k), for a natural number k < 2^31
FOfInt(k) == FNorm(BigOf(k), 0)

MinOf(a, b) == IF a < b THEN a ELSE b

\* x + y
FAdd(x, y) ==
    FRound(BigAdd(BigShl(x.m, x.e - MinOf(x.e, y.e)), BigShl(y.m, y.e - MinOf(x.e, y.e))),
           MinOf(x.e, y.e))

\* x - y, for x >= y
FSub(x, y) ==
    FRound(BigSub(BigShl(x.m, x.e - MinOf(x.e, y.e)), BigShl(y.m, y.e - MinOf(x.e, y.e))),
           MinOf(x.e, y.e))

\* x * y
FMul(x, y) == FRound(BigMul(x.m, y.m), x.e + y.e)

\* p / d for natural numbers d <= LimbBase and p: the quotient to 75 binary
\* places, with one more bit that says whether the division left a remainder
FDivInt(p, d) ==
    LET qr == BigDivSmall(BigShl(BigOf(p), 75), d)
    IN  FRound(BigAdd(BigMulSmall(qr[1], 2), IF qr[2] = 0 THEN <<>> ELSE <<1>>), 0 - 76)

\* int(x)
FTrunc(x) == IF x.e >= 0 THEN BigToInt(BigShl(x.m, x.e)) ELSE BigToInt(BigShr(x.m, 0 - x.e))

\* x < y
FLess(x, y) ==
    BigLess(BigShl(x.m, x.e - MinOf(x.e, y.e)), BigShl(y.m, y.e - MinOf(x.e, y.e)))

\* x <= y
FLeq(x, y) == ~FLess(y, x)

(***************************************************************************)
(* performance_tests/load_tester.py                                        *)
(*                                                                         *)
(* Response times are whole milliseconds.  get_percentile returns the      *)
(* float the code computes.  The other quotients the tests compare with a  *)
(* threshold (the mean, the success rate, the throughput) are quotients of *)
(* small natural numbers, for which the comparison of the rounded quotient *)
(* is the comparison of the cross products.                                *)
(***************************************************************************)
Ascending(a, b) == a < b

\* get_percentile(data, percentile): the float returned, for a list of
\* natural numbers and a whole percentile
get_percentile(data, percentile) ==
    IF data = <<>> THEN FOfInt(0)
    ELSE LET sorted_data == SortSeq(data, Ascending)
             n == Len(sorted_data)
             \* "if upper >= n" and the return statements, for the values of
             \* lower, upper and weight
             Interpolate(lower, upper, weight) ==
                 IF upper >= n THEN FOfInt(sorted_data[lower + 1])
                 ELSE FAdd(FMul(FOfInt(sorted_data[lower + 1]), FSub(FOfInt(1), weight)),
                           FMul(FOfInt(sorted_data[upper + 1]), weight))
             \* upper = lower + 1 and weight = idx - lower
             Between(idx, lower) == Interpolate(lower, lower + 1, FSub(idx, FOfInt(lower)))
             \* lower = int(idx)
             AtIndex(idx) == Between(idx, FTrunc(idx))
         IN  IF n = 1 THEN FOfInt(sorted_data[1])
             ELSE AtIndex(FMul(FOfInt(n - 1), FDivInt(percentile, 100)))

\* LoadTestWorker.__init__: self.results (errors holds the number of entries
\* of the errors list)
NewWorkerResults ==
    [requests |-> 0, successful |-> 0, failed |-> 0, response_times |-> <<>>, errors |-> 0]

\* the loop body with an except branch that does not count the request
WorkerRequest_uncounted(r, outcome, ms) ==
    IF outcome = "timeout"
    THEN [r EXCEPT !.failed = @ + 1, !.errors = @ + 1]
    ELSE IF outcome = "ok"
    THEN [r EXCEPT !.requests = @ + 1, !.response_times = Append(@, ms),
                   !.successful = @ + 1]
    ELSE [r EXCEPT !.requests = @ + 1, !.response_times = Append(@, ms),
                   !.failed = @ + 1, !.errors = @ + 1]

\* one pass of the body of the for loop of LoadTestWorker.run: the request
\* answers with a status below 400 ("ok"), with an error status ("status"),
\* or raises requests.RequestException ("timeout"); ms is the response time
WorkerRequest(r, outcome, ms) ==
    IF outcome = "timeout"
    THEN [r EXCEPT !.requests = @ + 1, !.failed = @ + 1, !.errors = @ + 1]
    ELSE IF outcome = "ok"
    THEN [r EXCEPT !.requests = @ + 1, !.response_times = Append(@, ms),
                   !.successful = @ + 1]
    ELSE [r EXCEPT !.requests = @ + 1, !.response_times = Append(@, ms),
                   !.failed = @ + 1, !.errors = @ + 1]

\* run_load_test, "Combine results": the loop over all_results (collected)
CombineResults(collected) ==
    [requests |-> SeqSum([k \in DOMAIN collected |-> collected[k].requests]),
     successful |-> SeqSum([k \in DOMAIN collected |-> collected[k].successful]),
     failed |-> SeqSum([k \in DOMAIN collected |-> collected[k].failed]),
     response_times |-> Flatten([k \in DOMAIN collected |-> collected[k].response_times]),
     errors |-> SeqSum([k \in DOMAIN collected |-> collected[k].errors])]

\* run_load_test: results as it is first built, before the probe
NewLoadResults ==
    [passed |-> FALSE, total |-> 0, passed_tests |-> 0, tests |-> <<>>,
     has_metrics |-> FALSE, metrics |-> NewWorkerResults, error |-> None]

\* the result of run_load_test when requests.get(base_url) raises
LoadProbeFailure ==
    [passed |-> FALSE, total |-> 1, passed_tests |-> 0,
     tests |-> <<StatusTest(<<"Base URL accessibility check">>, "FAIL",
                            <<"Base URL is not accessible">>)>>,
     has_metrics |-> FALSE, metrics |-> NewWorkerResults, error |-> None]

\* the four tests run_load_test derives from the combined metrics
LoadTests(combined, num_users, duration, max_response_time) ==
    LET times == combined.response_times
        success_ok == combined.requests > 0
                      /\ combined.successful * 100 >= 95 * combined.requests
        \* combined.get("avg_response_time", 0) <= max_response_time
        avg_ok == IF times = <<>> THEN 0 <= max_response_time
                  ELSE SeqSum(times) <= max_response_time * Len(times)
        \* combined.get("p95_response_time", 0) <= max_response_time * 1.5
        p95_ok == IF times = <<>> THEN 0 <= max_response_time * 3
                  ELSE FLeq(get_percentile(times, 95),
                            FMul(FOfInt(max_response_time), Flt(<<3>>, 0 - 1)))
        \* combined["requests"] / duration >= num_users / 2
        throughput_ok == combined.requests * 2 >= num_users * duration
        St(b) == IF b THEN "PASS" ELSE "FAIL"
    IN  <<StatusTest(<<"Request success rate">>, St(success_ok), <<"Success rate">>),
          StatusTest(<<"Average response time">>, St(avg_ok), <<"Average response time">>),
          StatusTest(<<"95th percentile response time">>, St(p95_ok),
                     <<"95th percentile response time">>),
          StatusTest(<<"Throughput (requests per second)">>, St(throughput_ok),
                     <<"Throughput">>)>>

\* run_load_test from "Combine results" on: collected is all_results, the results the
\* workers returned, in the order they completed.  A duration of 0 makes
\* combined["requests"] / duration raise, which the outer except turns into
\* passed False and an error, before any test is appended.
LoadOutcome(collected, num_users, duration, max_response_time) ==
    LET combined == CombineResults(collected)
        \* the counters and the overall result, for the four tests
        Judged(tests) ==
            [passed |-> Count(tests, IsPassStatus) = Len(tests), total |-> Len(tests),
             passed_tests |-> Count(tests, IsPassStatus), tests |-> tests,
             has_metrics |-> TRUE, metrics |-> combined, error |-> None]
    IN  IF duration = 0
        THEN [passed |-> FALSE, total |-> 0, passed_tests |-> 0, tests |-> <<>>,
              has_metrics |-> FALSE, metrics |-> NewWorkerResults,
              error |-> "division by zero"]
        ELSE Judged(LoadTests(combined, num_users, duration, max_response_time))

(***************************************************************************)
(* validate_production_readiness.py: ProductionValidator                   *)
(***************************************************************************)
\* advice_map of _get_remediation, in insertion order: <<key, advice>>
advice_map == <<
    <<"Database Table check", "Initialize database schema">>,
    <<"Production log level", "Set LOG_LEVEL to INFO or WARN">>,
    <<"JSON log format verification", "Configure a JSON formatter">>,
    <<"SLA Response time", "Investigate bottleneck using a profiler">>,
    <<"Critical security header", "Add the missing header">>,
    <<"Dockerfile best practices", "Review the Dockerfile">>,
    <<"PII and Secret Scan", "Ensure secrets are not logged">>,
    <<"Schema validation", "Verify that API response body matches the contract">>,
    <<"Tracking ID support", "Ensure 'X-Request-ID' is accepted and echoed">>
>>

DefaultAdvice == "Refer to internal architectural standards"

\* key in test_name, for the names the checkers build: a key is a substring of
\* a name exactly when it is one of the name's pieces, or that piece without
\* its trailing ": "
KeyInName(key, name) ==
    \E i \in DOMAIN name :
        \/ name[i] = key
        \/ key = "Critical security header" /\ name[i] = "Critical security header: "

\* _get_remediation returning the advice of the last key found in the name
get_remediation_last_key(test_name) ==
    IF \E k \in DOMAIN advice_map : KeyInName(advice_map[k][1], test_name)
    THEN advice_map[CHOOSE k \in DOMAIN advice_map :
                       /\ KeyInName(advice_map[k][1], test_name)
                       /\ \A j \in (k + 1)..Len(advice_map) :
                             ~KeyInName(advice_map[j][1], test_name)][2]
    ELSE DefaultAdvice

\* _get_remediation(test_name, message)
get_remediation(test_name) ==
    IF \E k \in DOMAIN advice_map : KeyInName(advice_map[k][1], test_name)
    THEN advice_map[CHOOSE k \in DOMAIN advice_map :
                       /\ KeyInName(advice_map[k][1], test_name)
                       /\ \A j \in 1..(k - 1) : ~KeyInName(advice_map[j][1], test_name)][2]
    ELSE DefaultAdvice

Counters(p, f, w, t) == [passed |-> p, failed |-> f, warning |-> w, total |-> t]

\* the loop body with the FAIL branch tested before the PASS branch
TallyOne_fail_first(c, test) ==
    IF test.status = "FAIL" \/ test.passed = "False"
    THEN [counts |-> [c EXCEPT !.total = @ + 1, !.failed = @ + 1],
          test |-> [test EXCEPT !.remediation = get_remediation(test.name)]]
    ELSE IF test.status = "PASS" \/ test.passed = "True"
    THEN [counts |-> [c EXCEPT !.total = @ + 1, !.passed = @ + 1], test |-> test]
    ELSE IF test.status = "WARNING"
    THEN [counts |-> [c EXCEPT !.total = @ + 1, !.warning = @ + 1],
          test |-> [test EXCEPT !.remediation = get_remediation(test.name)]]
    ELSE [counts |-> [c EXCEPT !.total = @ + 1], test |-> test]

\* the loop body looking at the status of a test only
TallyOne_status_only(c, test) ==
    IF test.status = "PASS"
    THEN [counts |-> [c EXCEPT !.total = @ + 1, !.passed = @ + 1], test |-> test]
    ELSE IF test.status = "FAIL"
    THEN [counts |-> [c EXCEPT !.total = @ + 1, !.failed = @ + 1],
          test |-> [test EXCEPT !.remediation = get_remediation(test.name)]]
    ELSE IF test.status = "WARNING"
    THEN [counts |-> [c EXCEPT !.total = @ + 1, !.warning = @ + 1],
          test |-> [test EXCEPT !.remediation = get_remediation(test.name)]]
    ELSE [counts |-> [c EXCEPT !.total = @ + 1], test |-> test]

\* one iteration of the loop of _update_test_counts: the counters and the test
\* after the if / elif / elif
TallyOne(c, test) ==
    IF test.status = "PASS" \/ test.passed = "True"
    THEN [counts |-> [c EXCEPT !.total = @ + 1, !.passed = @ + 1], test |-> test]
    ELSE IF test.status = "FAIL" \/ test.passed = "False"
    THEN [counts |-> [c EXCEPT !.total = @ + 1, !.failed = @ + 1],
          test |-> [test EXCEPT !.remediation = get_remediation(test.name)]]
    ELSE IF test.status = "WARNING"
    THEN [counts |-> [c EXCEPT !.total = @ + 1, !.warning = @ + 1],
          test |-> [test EXCEPT !.remediation = get_remediation(test.name)]]
    ELSE [counts |-> [c EXCEPT !.total = @ + 1], test |-> test]

RECURSIVE update_test_counts(_, _)
\* _update_test_counts(tests): the counters afterwards and the tests, which the
\* method changes in place
update_test_counts(c, tests) ==
    IF tests = <<>> THEN [counts |-> c, tests |-> <<>>]
    ELSE LET one == TallyOne(c, Head(tests))
             rest == update_test_counts(one.counts, Tail(tests))
         IN  [counts |-> rest.counts, tests |-> <<one.test>> \o rest.tests]

\* pass_percentage without the special case of an empty run
pass_percentage_unguarded(passed, total) ==
    IF total > 0 THEN (passed * 100) \div total ELSE 100

\* (passed / total) * 100 if total > 0 else 0, as the integer part of the float
pass_percentage(passed, total) ==
    IF total > 0 THEN (passed * 100) \div total ELSE 0

\* _add_summary with readiness withheld by a warning
add_summary_strict(c) ==
    [tests_passed |-> c.passed, tests_failed |-> c.failed, tests_warned |-> c.warning,
     total_tests |-> c.total,
     pass_percentage |-> pass_percentage(c.passed, c.total),
     production_ready |-> c.failed = 0 /\ c.warning = 0]

\* _add_summary: the dict stored under results["summary"] (start_time and
\* duration_seconds, which no claim reads, are left out)
add_summary(c) ==
    [tests_passed |-> c.passed, tests_failed |-> c.failed, tests_warned |-> c.warning,
     total_tests |-> c.total,
     pass_percentage |-> pass_percentage(c.passed, c.total),
     production_ready |-> c.failed = 0]

\* the ifs of run_validations with two of them exchanged
SectionOrder_exchanged == <<"env_config", "performance", "security", "api_endpoints",
                            "database", "deployment", "logging", "monitoring">>

SectionOrder == <<"env_config", "security", "performance", "api_endpoints",
                  "database", "deployment", "logging", "monitoring">>

SectionNames == Range(SectionOrder)

\* "name" in self.config["validate_sections"]
Enabled(name) == \E i \in DOMAIN config.validate_sections : config.validate_sections[i] = name

CurrentCounters == Counters(passed_tests, failed_tests, warning_tests, total_tests)

SetCounters(c) ==
    /\ passed_tests' = c.passed
    /\ failed_tests' = c.failed
    /\ warning_tests' = c.warning
    /\ total_tests' = c.total

(***************************************************************************)
(* What the checkers are run against                                       *)
(***************************************************************************)
\* a service on which every check of the scanner passes
GoodService ==
    [scheme |-> "https", reach |-> TRUE,
     tls |-> [ok |-> TRUE, protocol |-> "TLSv1.3", days |-> 90],
     headers_net |-> TRUE, headers |-> SecurityHeaderNames,
     cors_net |-> TRUE, cors_issues |-> 0,
     auth |-> [k \in DOMAIN AUTH_TEST_ENDPOINTS |->
                 [head |-> "404", burst |-> "slow", post |-> "denied"]],
     cookie_net |-> TRUE, cookie_issues |-> 0,
     expo_net |-> TRUE, expo_issues |-> 0]

AuthObs(head, burst, post) == [head |-> head, burst |-> burst, post |-> post]

\* what the candidate authentication endpoints answer
AuthWorlds ==
    {GoodService.auth,
     [GoodService.auth EXCEPT ![1] = AuthObs("found", "slow", "denied")],
     [GoodService.auth EXCEPT ![1] = AuthObs("found", "fast", "200")],
     [GoodService.auth EXCEPT ![1] = AuthObs("found", "slow", "neterr")],
     [GoodService.auth EXCEPT ![1] = AuthObs("neterr", "slow", "denied")],
     [GoodService.auth EXCEPT ![1] = AuthObs("found", "neterr", "denied")],
     [GoodService.auth EXCEPT ![4] = AuthObs("found", "fast", "200")],
     [GoodService.auth EXCEPT ![1] = AuthObs("found", "fast", "denied"),
                              ![2] = AuthObs("neterr", "slow", "denied")]}

\* response headers that give every grade, the scores 50 % and 92.9 % included
HeaderSets ==
    {SecurityHeaderNames \ {"Feature-Policy"},
     SecurityHeaderNames \ {"X-Frame-Options"},
     SecurityHeaderNames \ {"X-Frame-Options", "X-XSS-Protection"},
     {"Strict-Transport-Security", "Content-Security-Policy", "X-Content-Type-Options",
      "X-Frame-Options", "Feature-Policy"},
     {"Strict-Transport-Security", "Content-Security-Policy", "X-Content-Type-Options",
      "Permissions-Policy"},
     {"Strict-Transport-Security", "Content-Security-Policy", "X-Content-Type-Options"}}

Services ==
    {[GoodService EXCEPT !.reach = FALSE]} \cup
    {[GoodService EXCEPT !.headers = hs] : hs \in HeaderSets} \cup
    {[scheme |-> sc, reach |-> TRUE, tls |-> tl, headers_net |-> hn, headers |-> hs,
      cors_net |-> cn[1], cors_issues |-> cn[2], auth |-> au,
      cookie_net |-> ck[1], cookie_issues |-> ck[2],
      expo_net |-> ex[1], expo_issues |-> ex[2]] :
        sc \in {"https", "http"},
        tl \in {[ok |-> TRUE, protocol |-> "TLSv1.3", days |-> 90],
                [ok |-> TRUE, protocol |-> "TLSv1.3", days |-> 10],
                [ok |-> TRUE, protocol |-> "TLSv1.1", days |-> 3],
                [ok |-> FALSE, protocol |-> "TLSv1.3", days |-> 90]},
        hn \in BOOLEAN,
        hs \in {SecurityHeaderNames, {},
                SecurityHeaderNames \ {"Content-Security-Policy", "Feature-Policy"}},
        cn \in {<<TRUE, 0>>, <<TRUE, 1>>, <<FALSE, 0>>},
        au \in AuthWorlds,
        ck \in {<<TRUE, 0>>, <<TRUE, 1>>, <<FALSE, 0>>},
        ex \in {<<TRUE, 0>>, <<TRUE, 1>>, <<FALSE, 0>>}}

\* the security part of the configuration: <<scan_severity, check_ssl, check_headers, check_auth>>
SecurityConfigs ==
    {<<"high", TRUE, TRUE, TRUE>>, <<"medium", TRUE, TRUE, TRUE>>,
     <<"low", TRUE, TRUE, FALSE>>, <<"high", FALSE, FALSE, TRUE>>}

Answer(net, status, json_type, ms) ==
    [net |-> net, status |-> status, json_type |-> json_type, is_json |-> json_type,
     body |-> Val("dict", <<>>), echo |-> FALSE, ms |-> ms, noauth |-> "401"]

Answers ==
    {Answer(TRUE, 200, TRUE, 100), Answer(TRUE, 200, TRUE, 900), Answer(TRUE, 500, FALSE, 100),
     Answer(TRUE, 301, TRUE, 100), Answer(FALSE, 0, FALSE, 0)}

\* the answers of an endpoint with each outcome of the repeat without Authorization
EndpointAnswers ==
    {[a EXCEPT !.noauth = n] : a \in Answers, n \in {"401", "403", "200", "404", "neterr"}}

\* endpoint configurations a caller of validate_endpoint declares
EndpointConfigs ==
    {EndpointConfig("/api/users", st, FALSE, OtherSchema, rf, auth, 0) :
        st \in {200, 301}, rf \in {{}, {"id"}}, auth \in BOOLEAN}

ProbeAnswer(net, status) == [net |-> net, status |-> status]

\* the application the API validator discovers: found are the paths whose
\* HEAD answers 200, lost those whose HEAD does not return, the others answer
\* 404; every GET is answered by a
ApiWorld(found, lost, a) ==
    [probe |-> [k \in DOMAIN common_paths |->
                  IF k \in lost THEN ProbeAnswer(FALSE, 0)
                  ELSE IF k \in found THEN ProbeAnswer(TRUE, 200)
                  ELSE ProbeAnswer(TRUE, 404)],
     answer |-> [k \in DOMAIN common_paths |-> a]]

ApiWorlds ==
    {ApiWorld(found, lost, a) :
        found \in {{}, {1}, {1, 5}, {5, 10}}, lost \in {{}, {5}, DOMAIN common_paths},
        a \in Answers}

\* applications whose paths answer differently: "/" is answered by a and
\* "/health" by b
MixedApiWorlds ==
    {[ApiWorld({1, 5}, {}, a) EXCEPT !.answer[5] = b] :
        a \in Answers, b \in Answers \ {Answer(TRUE, 200, TRUE, 100)}}

MonWorlds ==
    {[metrics |-> m, trace |-> t] :
        m \in {[net |-> FALSE, status |-> 0, help |-> FALSE, type |-> FALSE, metrics |-> {}],
               [net |-> TRUE, status |-> 200, help |-> TRUE, type |-> TRUE,
                metrics |-> Range(important_metrics)],
               [net |-> TRUE, status |-> 200, help |-> TRUE, type |-> FALSE,
                metrics |-> {"http_requests_total"}],
               [net |-> TRUE, status |-> 404, help |-> FALSE, type |-> FALSE, metrics |-> {}],
               [net |-> TRUE, status |-> 500, help |-> FALSE, type |-> FALSE, metrics |-> {}]},
        t \in {[net |-> FALSE, found |-> FALSE], [net |-> TRUE, found |-> TRUE],
               [net |-> TRUE, found |-> FALSE]}}

LogWorlds ==
    {[config |-> c, dir |-> d] :
        c \in {[found |-> FALSE, json |-> FALSE, readable |-> FALSE, debug |-> FALSE],
               [found |-> TRUE, json |-> TRUE, readable |-> TRUE, debug |-> FALSE],
               [found |-> TRUE, json |-> FALSE, readable |-> TRUE, debug |-> TRUE],
               [found |-> TRUE, json |-> FALSE, readable |-> FALSE, debug |-> FALSE]},
        d \in {[exists |-> FALSE, files |-> 0, readable |-> FALSE, json |-> FALSE, pii |-> 0],
               [exists |-> TRUE, files |-> 0, readable |-> FALSE, json |-> FALSE, pii |-> 0],
               [exists |-> TRUE, files |-> 1, readable |-> FALSE, json |-> FALSE, pii |-> 0],
               [exists |-> TRUE, files |-> 2, readable |-> TRUE, json |-> TRUE, pii |-> 0],
               [exists |-> TRUE, files |-> 1, readable |-> TRUE, json |-> FALSE, pii |-> 2]}}

DeployTrees ==
    {[ci |-> ci[1], ci_deploy |-> ci[2],
      container |-> co[1], dockerfile |-> co[2], docker_issues |-> co[3],
      build |-> bu[1], npm |-> bu[2], npm_build |-> bu[3],
      static |-> st[1], minified |-> st[2],
      env_any |-> en[1], env_dotenv |-> en[2], env_example |-> en[3]] :
        ci \in {<<FALSE, FALSE>>, <<TRUE, FALSE>>, <<TRUE, TRUE>>},
        co \in {<<FALSE, FALSE, 0>>, <<TRUE, FALSE, 0>>, <<TRUE, TRUE, 0>>, <<TRUE, TRUE, 2>>},
        bu \in {<<FALSE, FALSE, FALSE>>, <<TRUE, FALSE, FALSE>>, <<TRUE, TRUE, FALSE>>,
                <<TRUE, TRUE, TRUE>>},
        st \in {<<FALSE, FALSE>>, <<TRUE, FALSE>>, <<TRUE, TRUE>>},
        en \in {<<FALSE, FALSE, FALSE>>, <<TRUE, TRUE, FALSE>>, <<TRUE, TRUE, TRUE>>,
                <<TRUE, FALSE, TRUE>>}}

\* a worker's results after the given outcomes, <<outcome, ms>> each
RECURSIVE WorkerAfter(_)
WorkerAfter(outcomes) ==
    IF outcomes = <<>> THEN NewWorkerResults
    ELSE WorkerRequest(WorkerAfter(SubSeq(outcomes, 1, Len(outcomes) - 1)),
                       outcomes[Len(outcomes)][1], outcomes[Len(outcomes)][2])

LoadWorld(probe, all) == [probe |-> probe, all_results |-> all]

(***************************************************************************)
(* What the sections of one orchestrator run are run against.  The keys of *)
(* the configuration other than validate_sections are read by one section  *)
(* each, so their values are drawn where the section reads them.           *)
(***************************************************************************)
OrchEnvFiles ==
    {EnvFile("missing", ValidEnvVars, {}),
     EnvFile("unreadable", ValidEnvVars, AllHeaders),
     EnvFile("ok", ValidEnvVars, AllHeaders),
     EnvFile("ok", ValidEnvVars, {}),
     EnvFile("ok", [ValidEnvVars EXCEPT !["JWT_SECRET_KEY"] = AbsentVal], AllHeaders),
     EnvFile("ok", [ValidEnvVars EXCEPT !["JWT_SECRET_KEY"] = StrVal(<<>>)], {})}

\* config["security"] of the default configuration
DefaultSecurityConfig == <<"high", TRUE, TRUE, TRUE>>

OrchServices ==
    {GoodService,
     [GoodService EXCEPT !.reach = FALSE],
     [GoodService EXCEPT !.tls = [ok |-> TRUE, protocol |-> "TLSv1.3", days |-> 10],
                         !.cookie_net = FALSE, !.cors_net = FALSE]}

\* config["performance"]: load_test_users, load_test_duration, max_response_time
OrchPerformance == [load_test_users |-> 2, load_test_duration |-> 1, max_response_time |-> 500]

OrchLoads ==
    {LoadWorld(FALSE, <<>>),
     LoadWorld(TRUE, <<WorkerAfter(<<<<"ok", 100>>, <<"ok", 100>>>>), WorkerAfter(<<<<"ok", 100>>>>)>>),
     LoadWorld(TRUE, <<WorkerAfter(<<<<"ok", 900>>, <<"timeout", 0>>>>), WorkerAfter(<<<<"status", 100>>>>)>>)}

OrchApis ==
    {ApiWorld({}, {}, Answer(TRUE, 200, TRUE, 100)),
     ApiWorld({1, 5}, {}, Answer(TRUE, 200, TRUE, 100)),
     ApiWorld({1}, {5}, Answer(FALSE, 0, FALSE, 0))}

\* <<config["db_connection_string"], the database behind it>>
OrchDatabases ==
    {<<ConnString(<<"postgresql">>, TRUE, <<<<"sslmode", "verify-full">>>>), GoodDatabase>>,
     <<ConnString(<<"postgresql">>, FALSE, <<>>), GoodDatabase>>,
     <<ConnString(<<"postgresql">>, TRUE, <<>>),
       Database(TRUE, FALSE, {}, FALSE, {})>>}

OrchTrees ==
    {t \in DeployTrees :
        \/ t.ci_deploy /\ t.dockerfile /\ t.docker_issues = 0 /\ t.npm_build /\ t.minified
           /\ t.env_example /\ t.env_dotenv
        \/ ~t.ci /\ ~t.container /\ ~t.build /\ ~t.static /\ ~t.env_any
        \/ t.ci_deploy /\ t.docker_issues = 2 /\ t.npm /\ ~t.npm_build /\ t.static
           /\ ~t.minified /\ t.env_dotenv /\ ~t.env_example}

OrchLogs ==
    {w \in LogWorlds :
        \/ ~w.config.found /\ ~w.dir.exists
        \/ w.config.json /\ w.dir.json
        \/ w.config.debug /\ w.dir.pii = 2}

OrchMons ==
    {w \in MonWorlds :
        \/ ~w.metrics.net /\ ~w.trace.net
        \/ w.metrics.status = 200 /\ w.metrics.type /\ w.trace.net /\ w.trace.found
        \/ w.metrics.status = 200 /\ ~w.metrics.type /\ w.trace.net /\ ~w.trace.found}

(***************************************************************************)
(* The orchestrator: ProductionValidator.run_validations                   *)
(***************************************************************************)
MaxSections == 2

\* the names a validate_sections list is made of: the eight sections and a
\* name that is no section
ConfigNames == SectionNames \cup {"custom"}

\* the validate_sections lists: every list of at most MaxSections names, and
\* the list of the default configuration
SectionLists ==
    UNION {[1..n -> ConfigNames] : n \in 0..MaxSections} \cup {SectionOrder}

NoCall == [fn |-> "none", args |-> <<>>]
NoLoad == [pc |-> "none", num_users |-> 0, duration |-> 0, max_response_time |-> 0]

OthersIdle ==
    /\ call = NoCall /\ ret = None
    /\ load = NoLoad /\ workers = <<>> /\ all_results = <<>> /\ load_result = None

\* ProductionValidator.__init__
Init ==
    /\ config \in [validate_sections : SectionLists]
    /\ pc = "idle"
    /\ results = <<>>
    /\ passed_tests = 0 /\ failed_tests = 0 /\ warning_tests = 0 /\ total_tests = 0
    /\ observed = <<>>
    /\ ran = <<>>
    /\ OthersIdle

\* the position after the if of a section
NextPc(name) ==
    LET i == CHOOSE k \in DOMAIN SectionOrder : SectionOrder[k] = name
    IN  IF i = Len(SectionOrder) THEN "summary" ELSE SectionOrder[i + 1]

\* _update_test_counts called on the first list of tests only
TallyGroups_first_group(c, groups) ==
    IF groups = <<>> THEN [counts |-> c, groups |-> <<>>]
    ELSE LET one == update_test_counts(c, Head(groups))
         IN  [counts |-> one.counts, groups |-> <<one.tests>> \o Tail(groups)]

RECURSIVE TallyGroups(_, _)
\* _update_test_counts called on each list of tests in turn
TallyGroups(c, groups) ==
    IF groups = <<>> THEN [counts |-> c, groups |-> <<>>]
    ELSE LET one == update_test_counts(c, Head(groups))
             rest == TallyGroups(one.counts, Tail(groups))
         IN  [counts |-> rest.counts, groups |-> <<one.tests>> \o rest.groups]

\* a section has run: its entry of results, the counters, the bookkeeping
SectionDone(name, key, result, counts, seen) ==
    /\ results' = (key :> result) @@ results
    /\ SetCounters(counts)
    /\ observed' = (name :> seen) @@ observed
    /\ ran' = Append(ran, name)
    /\ pc' = NextPc(name)
    /\ UNCHANGED <<config, call, ret, load, workers, all_results, load_result>>

\* run_validations is called
BeginRun ==
    /\ pc = "idle"
    /\ pc' = SectionOrder[1]
    /\ UNCHANGED <<config, results, passed_tests, failed_tests, warning_tests, total_tests,
                   observed, ran, call, ret, load, workers, all_results, load_result>>

\* the if of a section that validate_sections does not name
SkipSection ==
    /\ pc \in SectionNames
    /\ ~Enabled(pc)
    /\ pc' = NextPc(pc)
    /\ UNCHANGED <<config, results, passed_tests, failed_tests, warning_tests, total_tests,
                   observed, ran, call, ret, load, workers, all_results, load_result>>

\* _run_env_validation
RunEnvValidation ==
    /\ pc = "env_config" /\ Enabled("env_config")
    /\ \E file \in OrchEnvFiles :
        LET env_results == validate_env_file(file, OrchestratorEnvSections)
            tally == update_test_counts(CurrentCounters, env_results.tests)
        IN  SectionDone("env_config", "env_config",
                        [env_results EXCEPT !.tests = tally.tests], tally.counts, file)

\* _run_security_tests
RunSecurityTests ==
    /\ pc = "security" /\ Enabled("security")
    /\ \E svc \in OrchServices :
        LET sec == DefaultSecurityConfig
            security_results == run_security_scan(svc, sec[1], sec[2], sec[3], sec[4])
            tally == update_test_counts(CurrentCounters, security_results.tests)
        IN  SectionDone("security", "security",
                        [security_results EXCEPT !.tests = tally.tests], tally.counts, svc)

\* run_load_test as the orchestrator calls it
run_load_test(w, perf) ==
    IF ~w.probe THEN LoadProbeFailure
    ELSE LoadOutcome(w.all_results, perf.load_test_users, perf.load_test_duration,
                     perf.max_response_time)

\* _run_performance_tests
RunPerformanceTests ==
    /\ pc = "performance" /\ Enabled("performance")
    /\ \E w \in OrchLoads :
        LET Store(load_test_results) ==
                LET tally == update_test_counts(CurrentCounters, load_test_results.tests)
                IN  SectionDone("performance", "performance",
                                [load_test |-> [load_test_results EXCEPT !.tests = tally.tests],
                                 passed |-> load_test_results.passed,
                                 total |-> load_test_results.total,
                                 passed_tests |-> load_test_results.passed_tests],
                                tally.counts, w)
        IN  Store(run_load_test(w, OrchPerformance))

\* _run_api_tests
RunApiTests ==
    /\ pc = "api_endpoints" /\ Enabled("api_endpoints")
    /\ \E api \in OrchApis :
        LET api_results == validate_api_endpoints(api)
            tally == TallyGroups(CurrentCounters,
                                 [k \in DOMAIN api_results.endpoints |->
                                     api_results.endpoints[k].tests])
        IN  SectionDone("api_endpoints", "api",
                        [endpoints |-> [api_results EXCEPT !.endpoints =
                                          [k \in DOMAIN @ |-> [@[k] EXCEPT !.tests = tally.groups[k]]]],
                         passed |-> api_results.passed,
                         total |-> api_results.total,
                         passed_tests |-> api_results.passed_endpoints],
                        tally.counts, api)

\* _run_database_tests
RunDatabaseTests ==
    /\ pc = "database" /\ Enabled("database")
    /\ \E d \in OrchDatabases :
        LET db_results == validate_database(d[1], d[2])
            tally == update_test_counts(CurrentCounters, db_results.tests)
        IN  SectionDone("database", "database",
                        [db_results EXCEPT !.tests = tally.tests], tally.counts, d)

\* _run_deployment_checks
RunDeploymentChecks ==
    /\ pc = "deployment" /\ Enabled("deployment")
    /\ \E tree \in OrchTrees :
        LET deployment_results == validate_deployment_readiness(tree)
            tally == TallyGroups(CurrentCounters,
                                 [k \in DOMAIN deployment_results.sections |->
                                     deployment_results.sections[k].tests])
        IN  SectionDone("deployment", "deployment",
                        [deployment_results EXCEPT !.sections =
                            [k \in DOMAIN @ |-> [@[k] EXCEPT !.tests = tally.groups[k]]]],
                        tally.counts, tree)

\* _run_logging_tests
RunLoggingTests ==
    /\ pc = "logging" /\ Enabled("logging")
    /\ \E lg \in OrchLogs :
        LET logging_results == validate_logging(lg)
            tally == update_test_counts(CurrentCounters, logging_results.tests)
        IN  SectionDone("logging", "logging",
                        [logging_results EXCEPT !.tests = tally.tests], tally.counts, lg)

\* _run_monitoring_tests
RunMonitoringTests ==
    /\ pc = "monitoring" /\ Enabled("monitoring")
    /\ \E mon \in OrchMons :
        LET monitoring_results == validate_monitoring(mon)
            tally == update_test_counts(CurrentCounters, monitoring_results.tests)
        IN  SectionDone("monitoring", "monitoring",
                        [monitoring_results EXCEPT !.tests = tally.tests], tally.counts, mon)

\* _add_summary, and run_validations returns
AddSummary ==
    /\ pc = "summary"
    /\ results' = ("summary" :> add_summary(CurrentCounters)) @@ results
    /\ pc' = "done"
    /\ UNCHANGED <<config, passed_tests, failed_tests, warning_tests, total_tests,
                   observed, ran, call, ret, load, workers, all_results, load_result>>

Next ==
    \/ BeginRun
    \/ SkipSection
    \/ RunEnvValidation
    \/ RunSecurityTests
    \/ RunPerformanceTests
    \/ RunApiTests
    \/ RunDatabaseTests
    \/ RunDeploymentChecks
    \/ RunLoggingTests
    \/ RunMonitoringTests
    \/ AddSummary

Spec == Init /\ [][Next]_vars

(***************************************************************************)
(* Properties of the orchestrator (specification Spec)                     *)
(***************************************************************************)
HasSummary == "summary" \in DOMAIN results
Summary == results["summary"]

\* C1: once run_validations has added the summary, production_ready is true
\* exactly when tests_failed is 0, whatever tests_warned is.
C1_ReadyIffNoFailedTest ==
    HasSummary => (Summary.production_ready <=> Summary.tests_failed = 0)

\* a finished run that is ready although it counted warnings
C1_Witness ==
    /\ pc = "done" /\ HasSummary
    /\ Summary.tests_warned > 0 /\ Summary.tests_failed = 0 /\ Summary.production_ready

\* the order of the sections as run_validations is documented to run them
FixedOrder == <<"env_config", "security", "performance", "api_endpoints",
                "database", "deployment", "logging", "monitoring">>

PositionOf(name) == CHOOSE k \in DOMAIN FixedOrder : FixedOrder[k] = name

Listed(name) == name \in Range(config.validate_sections)

\* C3: the sections run one after another in the fixed order, whatever the
\* order of validate_sections: the sections run so far are exactly the listed
\* sections before the current position, each once and in the fixed order; a
\* section that is not listed never runs; the summary exists only once the
\* last listed section has run.
C3_LinearFixedOrder ==
    /\ \A i \in DOMAIN ran : ran[i] \in Range(FixedOrder) /\ Listed(ran[i])
    /\ \A i, j \in DOMAIN ran : i < j => PositionOf(ran[i]) < PositionOf(ran[j])
    /\ \A k \in DOMAIN FixedOrder :
          LET before == CASE pc = "idle" -> FALSE
                          [] pc \in {"summary", "done"} -> TRUE
                          [] OTHER -> k < PositionOf(pc)
          IN  (FixedOrder[k] \in Range(ran)) <=> (before /\ Listed(FixedOrder[k]))
    /\ HasSummary <=> pc = "done"

\* a finished run of two sections listed against the fixed order
C3_Witness ==
    /\ pc = "done"
    /\ config.validate_sections = <<"monitoring", "env_config">>
    /\ ran = <<"env_config", "monitoring">>

\* C4: a run that tallied no test still gets its summary, with
\* pass_percentage 0.
C4_EmptyRunSummary ==
    /\ pc = "done" => HasSummary
    /\ (HasSummary /\ Summary.total_tests = 0) => Summary.pass_percentage = 0

\* a finished run with an empty validate_sections list
C4_Witness ==
    /\ pc = "done" /\ HasSummary
    /\ config.validate_sections = <<>>
    /\ Summary.total_tests = 0

Saw(name) == name \in DOMAIN observed

EnvFileMissing == Saw("env_config") /\ observed["env_config"].state = "missing"

DbStringUnparsable == Saw("database") /\ ~parse_db_url(observed["database"][1]).valid

OneFailTest(tests) == Len(tests) = 1 /\ tests[1].status = "FAIL"

\* C7: a missing env file gives the env section one test, the FAIL of the
\* existence check; an unparsable connection string gives the database
\* section one test, a FAIL, whatever the database would answer (none is
\* contacted); and a run in which either happened still ends with every
\* listed section run and the summary added.
C7_MalformedInputShortCircuits ==
    /\ EnvFileMissing =>
          /\ OneFailTest(results["env_config"].tests)
          /\ results["env_config"].tests[1].name = <<"File existence check">>
    /\ DbStringUnparsable =>
          /\ OneFailTest(results["database"].tests)
          /\ results["database"].tests[1].name = <<"Connection string validation">>
          /\ \A db \in Databases :
                validate_database(observed["database"][1], db)
                    = validate_database(observed["database"][1], observed["database"][2])
    /\ (pc = "done" /\ (EnvFileMissing \/ DbStringUnparsable)) =>
          /\ HasSummary
          /\ \A k \in DOMAIN FixedOrder : Listed(FixedOrder[k]) => FixedOrder[k] \in Range(ran)

\* a finished run of all eight sections in which the env file was missing and
\* the connection string unparsable
C7_Witness ==
    /\ pc = "done" /\ HasSummary
    /\ EnvFileMissing /\ DbStringUnparsable
    /\ Len(ran) = 8

JwtDefect(file) ==
    /\ file.state = "ok"
    /\ \E v \in {AbsentVal, StrVal(<<>>)} :
          file.vars = [ValidEnvVars EXCEPT !["JWT_SECRET_KEY"] = v]

FailTests(tests) == {i \in DOMAIN tests : tests[i].status = "FAIL"}

\* C10: a run with validate_sections = ["env_config"] against a file whose
\* only defect is an absent or empty JWT_SECRET_KEY stores exactly one FAIL
\* test, "Variable presence: JWT_SECRET_KEY", and its summary has
\* tests_failed 1 and production_ready false.
C10_MissingJwtSecret ==
    (/\ pc = "done"
     /\ config.validate_sections = <<"env_config">>
     /\ JwtDefect(observed["env_config"])) =>
        LET tests == results["env_config"].tests
        IN  /\ Cardinality(FailTests(tests)) = 1
            /\ \A i \in FailTests(tests) :
                  tests[i].name = <<"Variable presence: ", "JWT_SECRET_KEY">>
            /\ Summary.tests_failed = 1
            /\ ~Summary.production_ready

\* such a run, finished, with the variable set to the empty string
C10_Witness ==
    /\ pc = "done"
    /\ config.validate_sections = <<"env_config">>
    /\ JwtDefect(observed["env_config"])
    /\ observed["env_config"].vars["JWT_SECRET_KEY"] = StrVal(<<>>)

(***************************************************************************)
(* The checkers and helpers called on their own (specification             *)
(* SpecCheckers): a call is drawn with its arguments, then it returns.     *)
(***************************************************************************)
MaxTests == 2
MaxUsers == 2

\* the test dicts a checker can hand to the tally: either shape, both, or neither
TestShapes ==
    {[name |-> <<"Schema validation">>, status |-> st, passed |-> pa,
      message |-> <<"m">>, remediation |-> None] :
        st \in {"PASS", "FAIL", "WARNING", "SKIP", None}, pa \in {"True", "False", None}}

\* test dicts under other names: none of the advice keys, a key followed by
\* more text, two keys
NamedTestShapes ==
    {[name |-> nm, status |-> sp[1], passed |-> sp[2],
      message |-> <<"m">>, remediation |-> None] :
        nm \in {<<"Environment file exists">>,
                <<"Critical security header: ", "X-Frame-Options">>,
                <<"Tracking ID support", " / ", "SLA Response time">>},
        sp \in {<<"FAIL", None>>, <<None, "False">>, <<"WARNING", None>>, <<"PASS", None>>}}

TestLists == UNION {[1..n -> TestShapes \cup NamedTestShapes] : n \in 0..MaxTests}

\* the results a worker can return
WorkerFinals ==
    {WorkerAfter(<<>>), WorkerAfter(<<<<"ok", 100>>, <<"ok", 100>>>>),
     WorkerAfter(<<<<"ok", 900>>, <<"timeout", 0>>>>), WorkerAfter(<<<<"status", 100>>>>),
     WorkerAfter(<<<<"timeout", 0>>>>)}

LoadWorlds ==
    {LoadWorld(probe, all) :
        probe \in BOOLEAN, all \in UNION {[1..n -> WorkerFinals] : n \in 1..MaxUsers}}

Performances ==
    {[load_test_users |-> Len(all), load_test_duration |-> d, max_response_time |-> 500] :
        all \in {[i \in 1..n |-> i] : n \in 1..MaxUsers}, d \in {0, 1, 2}}

MaxDataNodes == 3
MaxSchemaNodes == 3

\* the keys of the JSON objects and of the mapping schemas
Keys == {"id", "tags"}

RECURSIVE NodeCount(_)
\* the number of values in a JSON value, of schemas in a schema
NodeCount(x) ==
    1 + SeqSum([i \in DOMAIN x.v |-> NodeCount(x.v[i][2])])

RECURSIVE Values(_)
\* the JSON values of at most n nodes: scalars, lists of at most two
\* elements, objects over Keys
Values(n) ==
    IF n <= 0 THEN {}
    ELSE LET smaller == Values(n - 1)
             Fits(x, y) == NodeCount(x) + NodeCount(y) <= n - 1
         IN  {Val("int", <<>>), Val("str", <<>>), Val("bool", <<>>),
              ListVal(<<>>), Val("dict", <<>>)}
             \cup {ListVal(<<x>>) : x \in smaller}
             \cup {ListVal(<<x, y>>) : <<x, y>> \in {p \in smaller \X smaller : Fits(p[1], p[2])}}
             \cup {Val("dict", <<<<k, x>>>>) : k \in Keys, x \in smaller}
             \cup {Val("dict", <<<<"id", x>>, <<"tags", y>>>>) :
                      <<x, y>> \in {p \in smaller \X smaller : Fits(p[1], p[2])}}

RECURSIVE SchemaNodes(_)
SchemaNodes(sc) ==
    1 + SeqSum([i \in DOMAIN sc.sub |-> SchemaNodes(sc.sub[i][2])])

RECURSIVE Schemas(_)
\* the schemas of at most n nodes built from type tags, one-element lists
\* and key mappings (with the keys in either insertion order)
Schemas(n) ==
    IF n <= 0 THEN {}
    ELSE LET smaller == Schemas(n - 1)
             Fits(x, y) == SchemaNodes(x) + SchemaNodes(y) <= n - 1
         IN  {TypeSchema("int"), TypeSchema("str"), TypeSchema("list"), DictSchema(<<>>)}
             \cup {ListSchema(<<x>>) : x \in smaller}
             \cup {DictSchema(<<<<k, x>>>>) : k \in Keys, x \in smaller}
             \cup {DictSchema(<<<<k[1], x>>, <<k[2], y>>>>) :
                      k \in {<<"id", "tags">>, <<"tags", "id">>},
                      <<x, y>> \in {p \in smaller \X smaller : Fits(p[1], p[2])}}

\* the lists of response times and the percentiles get_percentile is called with
PercentileData ==
    {<<10, 20, 30, 40>>, <<40, 10, 30, 20>>, <<100, 100, 900>>}
    \cup UNION {[1..n -> {3, 5, 10, 750}] : n \in 1..2}

Percentiles == {0, 20, 50, 95, 99, 100}

Call(fn, args) == [fn |-> fn, args |-> args, done |-> FALSE]

OrchestratorIdle ==
    /\ config = [validate_sections |-> <<>>]
    /\ pc = "idle"
    /\ results = <<>>
    /\ passed_tests = 0 /\ failed_tests = 0 /\ warning_tests = 0 /\ total_tests = 0
    /\ observed = <<>>
    /\ ran = <<>>

LoadIdle == load = NoLoad /\ workers = <<>> /\ all_results = <<>> /\ load_result = None

InitCheckers ==
    /\ OrchestratorIdle
    /\ LoadIdle
    /\ ret = None
    /\ \/ \E c \in {Counters(0, 0, 0, 0), Counters(3, 2, 1, 6)}, tests \in TestLists :
             call = Call("_update_test_counts", <<c, tests>>)
       \/ \E data \in Values(MaxDataNodes), schema \in Schemas(MaxSchemaNodes) :
             call = Call("validate_schema", <<data, schema>>)
       \/ \E data \in PercentileData, percentile \in Percentiles :
             call = Call("get_percentile", <<data, percentile>>)
       \/ \E cfg \in EndpointConfigs, ans \in EndpointAnswers :
             call = Call("validate_endpoint", <<cfg, ans>>)
       \/ \E api \in ApiWorlds \cup MixedApiWorlds :
             call = Call("validate_api_endpoints", <<api>>)
       \/ \E mon \in MonWorlds : call = Call("validate_monitoring", <<mon>>)
       \/ \E lg \in LogWorlds : call = Call("validate_logging", <<lg>>)
       \/ \E w \in LoadWorlds, perf \in Performances :
             /\ Len(w.all_results) = perf.load_test_users
             /\ call = Call("run_load_test", <<w, perf>>)
       \/ \E tree \in DeployTrees : call = Call("validate_deployment_readiness", <<tree>>)
       \/ \E file \in EnvFiles, rs \in {OrchestratorEnvSections, EnvSectionNames} :
             call = Call("validate_env_file", <<file, rs>>)
       \/ \E cs \in ConnStrings, db \in Databases :
             call = Call("validate_database", <<cs, db>>)
       \/ \E svc \in Services, sec \in SecurityConfigs :
             call = Call("run_security_scan", <<svc, sec>>)

Returns(fn, value) ==
    /\ call.fn = fn /\ ~call.done
    /\ ret' = value
    /\ call' = [call EXCEPT !.done = TRUE]
    /\ UNCHANGED <<config, pc, results, passed_tests, failed_tests, warning_tests,
                   total_tests, observed, ran, load, workers, all_results, load_result>>

ReturnEnv == Returns("validate_env_file", validate_env_file(call.args[1], call.args[2]))

ReturnDatabase == Returns("validate_database", validate_database(call.args[1], call.args[2]))

ReturnSecurity ==
    Returns("run_security_scan",
            run_security_scan(call.args[1], call.args[2][1], call.args[2][2],
                              call.args[2][3], call.args[2][4]))

ReturnApi == Returns("validate_api_endpoints", validate_api_endpoints(call.args[1]))

ReturnPercentile ==
    Returns("get_percentile", get_percentile(call.args[1], call.args[2]))

ReturnEndpoint == Returns("validate_endpoint", validate_endpoint(call.args[1], call.args[2]))

ReturnMonitoring == Returns("validate_monitoring", validate_monitoring(call.args[1]))

ReturnLogging == Returns("validate_logging", validate_logging(call.args[1]))

ReturnDeployment ==
    Returns("validate_deployment_readiness", validate_deployment_readiness(call.args[1]))

ReturnLoadTest == Returns("run_load_test", run_load_test(call.args[1], call.args[2]))

ReturnTally ==
    Returns("_update_test_counts", update_test_counts(call.args[1], call.args[2]))

ReturnSchema == Returns("validate_schema", validate_schema(call.args[1], call.args[2]))

NextCheckers ==
    \/ ReturnEnv
    \/ ReturnDatabase
    \/ ReturnSecurity
    \/ ReturnApi
    \/ ReturnEndpoint
    \/ ReturnPercentile
    \/ ReturnMonitoring
    \/ ReturnLogging
    \/ ReturnDeployment
    \/ ReturnLoadTest
    \/ ReturnTally
    \/ ReturnSchema

SpecCheckers == InitCheckers /\ [][NextCheckers]_vars

(***************************************************************************)
(* Properties of the checkers (specification SpecCheckers)                 *)
(***************************************************************************)
Returned(fn) == call.fn = fn /\ call.done

\* the three classes of the tally rule, first match wins
CountsAsPassed(t) == t.status = "PASS" \/ t.passed = "True"
CountsAsFailed(t) == ~CountsAsPassed(t) /\ (t.status = "FAIL" \/ t.passed = "False")
CountsAsWarned(t) == ~CountsAsPassed(t) /\ ~CountsAsFailed(t) /\ t.status = "WARNING"

\* C2: the tally adds to tests_passed the tests with status PASS or passed
\* True, to tests_failed the others with status FAIL or passed False, to
\* tests_warned the others with status WARNING, for tests of either shape,
\* and adds one to total_tests per test.
C2_TallyRule ==
    Returned("_update_test_counts") =>
        LET before == call.args[1]
            tests == call.args[2]
            after == ret.counts
        IN  /\ after.passed = before.passed + Count(tests, CountsAsPassed)
            /\ after.failed = before.failed + Count(tests, CountsAsFailed)
            /\ after.warning = before.warning + Count(tests, CountsAsWarned)
            /\ after.total = before.total + Len(tests)

\* a tally of a status-shaped FAIL after a boolean-shaped pass that also
\* carries a WARNING status
C2_Witness ==
    /\ Returned("_update_test_counts")
    /\ Len(call.args[2]) = 2
    /\ call.args[2][1].status = "WARNING" /\ call.args[2][1].passed = "True"
    /\ call.args[2][2].status = "FAIL" /\ call.args[2][2].passed = None
    /\ ret.counts.passed = call.args[1].passed + 1
    /\ ret.counts.failed = call.args[1].failed + 1

\* isinstance for the JSON types: a bool is an int as well
InstanceOf(data, tag) == data.t = tag \/ (data.t = "bool" /\ tag = "int")

RECURSIVE Matches(_, _)
\* the value has the shape the schema describes: the type of a type tag; a
\* list whose every element matches the element schema; a dict that has
\* every key of the mapping with a matching value
Matches(data, schema) ==
    CASE schema.k = "type" -> InstanceOf(data, schema.tag)
      [] schema.k = "list" ->
            /\ data.t = "list"
            /\ \A i \in DOMAIN data.v : Matches(data.v[i][2], schema.sub[1][2])
      [] schema.k = "dict" ->
            /\ data.t = "dict"
            /\ \A j \in DOMAIN schema.sub :
                  \E i \in DOMAIN data.v :
                     /\ data.v[i][1] = schema.sub[j][1]
                     /\ Matches(data.v[i][2], schema.sub[j][2])

ValueAt(data, key) == data.v[CHOOSE i \in DOMAIN data.v : data.v[i][1] = key][2]

RECURSIVE FailurePath(_, _)
\* for a value that does not match, the path to the first failing location,
\* in list order and in the key order of the mapping, written as the
\* validator writes it; a wrong type or a missing key fails where it is
FailurePath(data, schema) ==
    CASE schema.k = "list" /\ data.t = "list" ->
            LET i == CHOOSE i \in DOMAIN data.v :
                        /\ ~Matches(data.v[i][2], schema.sub[1][2])
                        /\ \A h \in 1..(i - 1) : Matches(data.v[h][2], schema.sub[1][2])
            IN  <<"item[", IndexStr(i - 1), "] -> ">>
                \o FailurePath(data.v[i][2], schema.sub[1][2])
      [] schema.k = "dict" /\ data.t = "dict" ->
            LET Bad(j) == \/ \A i \in DOMAIN data.v : data.v[i][1] # schema.sub[j][1]
                          \/ ~Matches(ValueAt(data, schema.sub[j][1]), schema.sub[j][2])
                j == CHOOSE j \in DOMAIN schema.sub : Bad(j) /\ \A h \in 1..(j - 1) : ~Bad(h)
                key == schema.sub[j][1]
            IN  IF \A i \in DOMAIN data.v : data.v[i][1] # key THEN <<>>
                ELSE <<"'", key, "' -> ">> \o FailurePath(ValueAt(data, key), schema.sub[j][2])
      [] OTHER -> <<>>

IsPrefix(p, m) == Len(p) <= Len(m) /\ SubSeq(m, 1, Len(p)) = p

\* C9: validate_schema returns (True, "") exactly for the values that match
\* the schema, and for the others (False, message) with a message that is
\* the path to the first failing location followed by the reason.
C9_SchemaValidator ==
    Returned("validate_schema") =>
        LET data == call.args[1]
            schema == call.args[2]
        IN  /\ ret[1] <=> Matches(data, schema)
            /\ ret[1] => ret[2] = <<>>
            /\ ~ret[1] => /\ IsPrefix(FailurePath(data, schema), ret[2])
                          /\ Len(ret[2]) > Len(FailurePath(data, schema))

\* the second element of a list fails the element schema
C9_Witness ==
    /\ Returned("validate_schema")
    /\ call.args[1] = ListVal(<<Val("int", <<>>), Val("str", <<>>)>>)
    /\ call.args[2] = ListSchema(<<TypeSchema("int")>>)
    /\ ret = <<FALSE, <<"item[", "1", "] -> ", "Expected ", "int", ", got ", "str">>>>

\* the test of that name is in the list and counts as a failure
FailsNamed(tests, name) ==
    \E i \in DOMAIN tests :
        tests[i].name = name /\ (tests[i].status = "FAIL" \/ tests[i].passed = "False")

\* the requests of run_security_scan that were made and did not return, each
\* with the name of the test that reports on the check it belongs to
SecurityNetFailures(svc, sec) ==
    IF ~svc.reach THEN {<<"Base URL accessibility check">>}
    ELSE (IF sec[2] /\ svc.scheme = "https" /\ ~svc.tls.ok
          THEN {<<"SSL/TLS configuration">>} ELSE {})
         \cup (IF sec[3] /\ ~svc.headers_net THEN {<<"Security headers check">>} ELSE {})
         \cup (IF sec[3] /\ ~svc.cors_net THEN {<<"CORS configuration check">>} ELSE {})
         \cup (IF sec[4] /\ \E k \in DOMAIN svc.auth : AuthRaisesAt(svc.auth[k])
               THEN {<<"Authentication endpoints check">>} ELSE {})
         \cup (IF ~svc.cookie_net THEN {<<"Cookie security flags">>} ELSE {})
         \cup (IF ~svc.expo_net THEN {<<"Information disclosure scan">>} ELSE {})

\* C6: a request of a checker that times out or cannot connect is reported by
\* a FAIL test in the checker's result: by the test of the check the request
\* belongs to in the security scan; by a failing test of the endpoint in the
\* API validation, for the discovery probe of a path as for its GET; by the
\* accessibility test and the trace test in the monitoring validation; by the
\* accessibility test of the load test.
C6_NetworkFailureIsFailTest ==
    /\ Returned("run_security_scan") =>
          \A name \in SecurityNetFailures(call.args[1], call.args[2]) :
             FailsNamed(ret.tests, name)
    /\ Returned("validate_api_endpoints") =>
          \A k \in DOMAIN common_paths :
             (\/ ~call.args[1].probe[k].net
              \/ (call.args[1].probe[k].status < 404 /\ ~call.args[1].answer[k].net)) =>
                \E e \in DOMAIN ret.endpoints :
                   /\ ret.endpoints[e].endpoint = common_paths[k]
                   /\ \E i \in DOMAIN ret.endpoints[e].tests :
                         ret.endpoints[e].tests[i].passed = "False"
    /\ Returned("validate_monitoring") =>
          /\ ~call.args[1].metrics.net =>
                FailsNamed(ret.tests, <<"Prometheus metrics endpoint accessibility">>)
          /\ ~call.args[1].trace.net =>
                FailsNamed(ret.tests, <<"Trace context headers check">>)
    /\ Returned("run_load_test") =>
          (~call.args[1].probe => FailsNamed(ret.tests, <<"Base URL accessibility check">>))

\* C8: the result of validate_env_file, validate_database and
\* run_security_scan has passed true exactly when none of its tests has the
\* status FAIL, on every return path.
C8_PassedIffNoFailTest ==
    (\/ Returned("validate_env_file")
     \/ Returned("validate_database")
     \/ Returned("run_security_scan")) =>
        (ret.passed <=> ~HasFailStatus(ret.tests))

\* the test of that name is in the list, once, with that status
HasTest(tests, name, status) ==
    /\ Cardinality({i \in DOMAIN tests : tests[i].name = name}) = 1
    /\ \E i \in DOMAIN tests : tests[i].name = name /\ tests[i].status = status

\* validate_env_file returned for a readable file whose DATABASE_URL holds
\* "sqlite" and passes the url type check
SqliteUrlChecked ==
    /\ Returned("validate_env_file")
    /\ call.args[1].state = "ok"
    /\ call.args[1].vars["ENVIRONMENT"].kind # "none"
    /\ call.args[1].vars["DATABASE_URL"].kind = "str"
    /\ Contains(call.args[1].vars["DATABASE_URL"].s, S_sqlite)
    /\ Contains(call.args[1].vars["DATABASE_URL"].s, <<":","/","/">>)

\* ENVIRONMENT of the file is "production" in some casing
InProduction ==
    /\ call.args[1].vars["ENVIRONMENT"].kind = "str"
    /\ Lower(call.args[1].vars["ENVIRONMENT"].s) = S_production

\* C11: with ENVIRONMENT equal to "production" in any casing, a DATABASE_URL
\* that contains "sqlite" and passes the url type check gives the test
\* "Variable validation: DATABASE_URL" the status FAIL and the result passed
\* false; with any other ENVIRONMENT, or none, the same value gives that test
\* the status PASS.  (required_sections is the orchestrator's list or the
\* default, all sections.)
C11_NoSqliteInProduction ==
    SqliteUrlChecked =>
        /\ InProduction =>
              /\ HasTest(ret.tests, <<"Variable validation: ", "DATABASE_URL">>, "FAIL")
              /\ ~ret.passed
        /\ ~InProduction =>
              HasTest(ret.tests, <<"Variable validation: ", "DATABASE_URL">>, "PASS")

\* the file says ENVIRONMENT=Production and DATABASE_URL=sqlite:///db
C11_Witness ==
    /\ SqliteUrlChecked
    /\ InProduction
    /\ call.args[1].vars["ENVIRONMENT"].s # S_production
    /\ call.args[1].vars["DATABASE_URL"].s = S_sqlite_url
    /\ ~ret.passed

\* a test of that name is in the list
Named(tests, name) == \E i \in DOMAIN tests : tests[i].name = name

\* run_security_scan returned for a reachable http:// base URL, check_ssl on
HttpScanned ==
    /\ Returned("run_security_scan")
    /\ call.args[1].reach
    /\ call.args[1].scheme = "http"
    /\ call.args[2][2]

\* C12: the scan of a reachable http:// base URL with check_ssl on has the
\* test "HTTPS check" with status FAIL, no test "SSL/TLS configuration" and
\* no test "SSL certificate expiration", and the later checks still ran: the
\* header and CORS tests are there when check_headers is on, the
\* authentication test when check_auth is on and an endpoint was tested, the
\* cookie and information disclosure tests always.
C12_HttpBaseUrl ==
    HttpScanned =>
        /\ HasTest(ret.tests, <<"HTTPS check">>, "FAIL")
        /\ ~Named(ret.tests, <<"SSL/TLS configuration">>)
        /\ ~Named(ret.tests, <<"SSL certificate expiration">>)
        /\ call.args[2][3] =>
              /\ Named(ret.tests, <<"Security headers check">>)
              /\ Named(ret.tests, <<"CORS configuration check">>)
        /\ (call.args[2][4] /\ check_auth_endpoints(call.args[1]).endpoints_tested > 0) =>
              Named(ret.tests, <<"Authentication endpoints check">>)
        /\ Named(ret.tests, <<"Cookie security flags">>)
        /\ Named(ret.tests, <<"Information disclosure scan">>)
        /\ ~ret.passed

\* such a scan with every check on, an authentication endpoint found
C12_Witness ==
    /\ HttpScanned
    /\ call.args[2][3] /\ call.args[2][4]
    /\ Named(ret.tests, <<"Authentication endpoints check">>)
    /\ ret.total >= 6

\* validate_endpoint returned for an endpoint declared
\* authentication_required whose first request returned
AuthRepeated ==
    /\ Returned("validate_endpoint")
    /\ call.args[1].authentication_required
    /\ call.args[2].net

AuthTests == {i \in DOMAIN ret.tests : ret.tests[i].name = <<"Auth enforcement">>}

\* C13: for an endpoint declared authentication_required whose request
\* returned, the result has one test "Auth enforcement"; when the repeat
\* without Authorization answers a status other than 401 and 403 the test has
\* passed False and the message "Endpoint allowed unauthorized access", and
\* the endpoint's passed is false; when the repeat answers 401 or 403, or
\* does not return, the test has passed True.
C13_AuthEnforcement ==
    AuthRepeated =>
        /\ Cardinality(AuthTests) = 1
        /\ \A i \in AuthTests :
              IF call.args[2].noauth \in {"401", "403", "neterr"}
              THEN ret.tests[i].passed = "True"
              ELSE /\ ret.tests[i].passed = "False"
                   /\ ret.tests[i].message = <<"Endpoint allowed unauthorized access">>
                   /\ ~ret.passed

\* the repeat answered 200 while every other test of the endpoint passed
C13_Witness ==
    /\ AuthRepeated
    /\ call.args[2].noauth = "200"
    /\ \A i \in DOMAIN ret.tests : (i \notin AuthTests) => ret.tests[i].passed = "True"
    /\ ~ret.passed

\* the least and the greatest element of a non-empty list of numbers
MinElem(data) == CHOOSE v \in Range(data) : \A w \in Range(data) : v <= w
MaxElem(data) == CHOOSE v \in Range(data) : \A w \in Range(data) : w <= v

\* C14: get_percentile([10,20,30,40], 50) is 25.0; for a list of one element
\* the result is that element, whatever the percentile; for a longer list the
\* result lies between the elements of the sorted list at the index
\* floor((n-1)*p/100) and the next index, between which it interpolates; for
\* every non-empty list and every percentile from 0 to 100 the result lies
\* between the least and the greatest element.
C14_Percentile ==
    Returned("get_percentile") =>
        LET data == call.args[1]
            p == call.args[2]
            sorted == SortSeq(data, Ascending)
            n == Len(data)
            at == ((n - 1) * p) \div 100
            next == IF at + 1 < n THEN at + 1 ELSE at
        IN  /\ (data = <<10, 20, 30, 40>> /\ p = 50) => ret = FOfInt(25)
            /\ n = 1 => ret = FOfInt(data[1])
            /\ n >= 2 => /\ FLeq(FOfInt(sorted[at + 1]), ret)
                         /\ FLeq(ret, FOfInt(sorted[next + 1]))
            /\ FLeq(FOfInt(MinElem(data)), ret)
            /\ FLeq(ret, FOfInt(MaxElem(data)))

\* the number of tests held by the entry of results under key
StoredTestsOf(key) ==
    LET r == results[key]
    IN  CASE key = "performance" -> Len(r.load_test.tests)
          [] key = "api" ->
               SeqSum([k \in DOMAIN r.endpoints.endpoints |-> Len(r.endpoints.endpoints[k].tests)])
          [] key = "deployment" ->
               SeqSum([k \in DOMAIN r.sections |-> Len(r.sections[k].tests)])
          [] key = "summary" -> 0
          [] OTHER -> Len(r.tests)

RECURSIVE StoredTestsIn(_)
StoredTestsIn(keys) ==
    IF keys = {} THEN 0
    ELSE LET k == CHOOSE x \in keys : TRUE
         IN  StoredTestsOf(k) + StoredTestsIn(keys \ {k})

\* the number of tests stored in the results
StoredTests == StoredTestsIn(DOMAIN results)

\* C15: when a single run of run_validations on a fresh validator has
\* finished, summary.total_tests is the number of tests stored in the results
\* of the sections that ran, the tests of every API endpoint, of every
\* deployment sub-section and of the load test included.
C15_FlatteningExact ==
    pc = "done" => Summary.total_tests = StoredTests

\* a finished run whose API section tested two endpoints and whose
\* deployment section holds tests in more than one sub-section
C15_Witness ==
    /\ pc = "done"
    /\ {"api", "deployment"} \subseteq DOMAIN results
    /\ Len(results["api"].endpoints.endpoints) >= 2
    /\ \A k \in 1..2 : results["api"].endpoints.endpoints[k].tests # <<>>
    /\ Cardinality({k \in DOMAIN results["deployment"].sections :
                        results["deployment"].sections[k].tests # <<>>}) >= 2
    /\ Summary.total_tests = StoredTests

\* a finished run whose performance section holds the tests of the load test
C15_WitnessLoad ==
    /\ pc = "done"
    /\ "performance" \in DOMAIN results
    /\ Len(results["performance"].load_test.tests) = 4
    /\ Summary.total_tests = StoredTests

\* run_load_test returned for a base URL that answered the probe
LoadTestRan == Returned("run_load_test") /\ call.args[1].probe

\* the names of the four threshold tests, in the order they are appended
ThresholdNames ==
    <<<<"Request success rate">>, <<"Average response time">>,
      <<"95th percentile response time">>, <<"Throughput (requests per second)">>>>

\* what the claim says of the four tests, for the merged metrics m of a load
\* test of num_users workers that lasted duration seconds: a rate, an average
\* and a percentile over no request or no response time are 0
ThresholdsAsClaimed(res, m, num_users, duration, max_response_time) ==
    LET t == res.tests
        times == m.response_times
        Pass(i) == t[i].status = "PASS"
    IN  /\ Len(t) = 4
        /\ \A i \in 1..4 : t[i].name = ThresholdNames[i] /\ t[i].status \in {"PASS", "FAIL"}
        /\ Pass(1) <=> (m.requests > 0 /\ m.successful * 100 >= 95 * m.requests)
        /\ Pass(2) <=> SeqSum(times) <= max_response_time * Len(times)
        /\ Pass(3) <=> FLeq(get_percentile(times, 95),
                            FDivInt(3 * max_response_time, 2))
        /\ Pass(4) <=> m.requests * 2 >= num_users * duration
        /\ res.passed <=> \A i \in 1..4 : Pass(i)

\* C18: when the base URL is reachable and the workers have run, the result
\* of run_load_test holds exactly four tests: the success rate passes from
\* 95 %, the average response time up to max_response_time, the 95th
\* percentile up to 1.5 * max_response_time, the throughput from num_users / 2
\* requests per second, each whatever the others are; passed is true exactly
\* when all four are PASS.
C18_Thresholds ==
    LoadTestRan =>
        ThresholdsAsClaimed(ret, CombineResults(call.args[1].all_results),
                            call.args[2].load_test_users, call.args[2].load_test_duration,
                            call.args[2].max_response_time)

\* the same for the load tests that last some time
C18_ThresholdsOfTimedRuns ==
    LoadTestRan /\ call.args[2].load_test_duration # 0 =>
        ThresholdsAsClaimed(ret, CombineResults(call.args[1].all_results),
                            call.args[2].load_test_users, call.args[2].load_test_duration,
                            call.args[2].max_response_time)

\* a load test whose average passes and whose 95th percentile and success
\* rate fail
C18_MixedOutcome ==
    /\ LoadTestRan
    /\ Len(ret.tests) = 4
    /\ ret.tests[1].status = "FAIL" /\ ret.tests[2].status = "PASS"
    /\ ret.tests[3].status = "FAIL" /\ ret.tests[4].status = "PASS"
    /\ ~ret.passed

\* the names of the tests of validate_database, in the order of the code
DatabaseTestOrder ==
    <<<<"Connection string validation">>, <<"Production database check">>,
      <<"Database connection">>, <<"Schema integrity check">>,
      <<"Database migration system">>, <<"Performance indexing check">>,
      <<"Connection pooling configuration">>, <<"Database encryption">>>>

TestNames(tests) == [i \in DOMAIN tests |-> tests[i].name]

\* C19: validate_database emits its tests in the order connection string
\* validation, production engine, connection, schema integrity, migration
\* system, indexing, pooling, encryption; when the "Database connection"
\* test is FAIL none of the five later tests is emitted and passed is false;
\* when it is PASS all five are emitted.
C19_DatabaseShortCircuit ==
    Returned("validate_database") =>
        /\ Len(ret.tests) <= Len(DatabaseTestOrder)
        /\ TestNames(ret.tests) = SubSeq(DatabaseTestOrder, 1, Len(ret.tests))
        /\ HasTest(ret.tests, <<"Database connection">>, "FAIL") =>
              /\ Len(ret.tests) = 3
              /\ ~ret.passed
        /\ HasTest(ret.tests, <<"Database connection">>, "PASS") =>
              TestNames(ret.tests) = DatabaseTestOrder

\* validate_database returned for a database with every table that refuses
\* the connection
C19_Witness ==
    /\ Returned("validate_database")
    /\ call.args[2].driver /\ ~call.args[2].connect
    /\ required_tables \subseteq call.args[2].tables
    /\ HasTest(ret.tests, <<"Database connection">>, "FAIL")
    /\ Len(ret.tests) = 3
    /\ ~ret.passed

\* validate_database returned for a database that accepts the connection
C19_WitnessConnected ==
    /\ Returned("validate_database")
    /\ HasTest(ret.tests, <<"Database connection">>, "PASS")
    /\ HasTest(ret.tests, <<"Schema integrity check">>, "FAIL")
    /\ Len(ret.tests) = 8

\* C20: when the first probe of the base URL fails, run_security_scan
\* returns exactly one test, "Base URL accessibility check" with status FAIL,
\* and passed false; no test of the TLS, header, CORS, authentication, cookie
\* or information disclosure checks is in the result, whatever the switches
\* of the scan are.
C20_UnreachableBaseUrl ==
    Returned("run_security_scan") /\ ~call.args[1].reach =>
        /\ Len(ret.tests) = 1
        /\ ret.tests[1].name = <<"Base URL accessibility check">>
        /\ ret.tests[1].status = "FAIL"
        /\ ~ret.passed
        /\ ret.total = 1 /\ ret.failed_tests = 1 /\ ret.passed_tests = 0

\* a scan with every switch on returned for a base URL that does not answer
C20_Witness ==
    /\ Returned("run_security_scan")
    /\ ~call.args[1].reach
    /\ call.args[2][2] /\ call.args[2][3] /\ call.args[2][4]
    /\ ret.tests[1].status = "FAIL"

\* run_security_scan returned for a reachable https service, scanned with the
\* SSL check on, whose handshake succeeded with TLS 1.2 or newer
TlsScanned ==
    /\ Returned("run_security_scan")
    /\ call.args[1].reach /\ call.args[1].scheme = "https" /\ call.args[2][2]
    /\ call.args[1].tls.ok
    /\ call.args[1].tls.protocol \notin {"TLSv1", "TLSv1.1"}

\* the tests of the "if check_ssl:" block that have the status FAIL
TlsFailTests ==
    {i \in DOMAIN ret.tests :
        /\ ret.tests[i].name \in {<<"HTTPS check">>, <<"SSL/TLS configuration">>,
                                  <<"SSL certificate expiration">>}
        /\ ret.tests[i].status = "FAIL"}

\* C21: for an https target that negotiates TLS 1.2 or newer, a certificate
\* with at least 7 and fewer than 30 days left makes the "SSL certificate
\* expiration" test WARNING and no TLS test FAIL; a TLS test is FAIL only
\* when fewer than 7 days are left.
C21_CertificateTiering ==
    TlsScanned =>
        /\ (call.args[1].tls.days >= 7 /\ call.args[1].tls.days < 30) =>
              /\ HasTest(ret.tests, <<"SSL certificate expiration">>, "WARNING")
              /\ TlsFailTests = {}
        /\ TlsFailTests # {} => call.args[1].tls.days < 7

\* the issues check_auth_endpoints recorded for the service of the call
RecordedAuthIssues == check_auth_endpoints(call.args[1]).issues

\* the tests "Authentication security issue" of the result
AuthIssueTests ==
    SelectSeq(ret.tests, LAMBDA t : t.name = <<"Authentication security issue">>)

\* C22: whatever the probes of the candidate endpoints answer, every issue
\* check_auth_endpoints records is in the result of the scan as a FAIL test
\* of its own, the issues of an earlier endpoint included when a request to
\* a later endpoint fails.
C22_AuthIssuesReported ==
    (Returned("run_security_scan") /\ call.args[1].reach /\ call.args[2][4]) =>
        /\ Len(AuthIssueTests) = Len(RecordedAuthIssues)
        /\ \A k \in DOMAIN RecordedAuthIssues :
              /\ AuthIssueTests[k].message = RecordedAuthIssues[k]
              /\ AuthIssueTests[k].status = "FAIL"

\* run_security_scan returned for a reachable service, scanned with the
\* header check on
HeadersScanned ==
    Returned("run_security_scan") /\ call.args[1].reach /\ call.args[2][3]

\* the recommended headers the scanner saw in the response (none when the
\* request for the headers failed)
HeadersSeen ==
    IF call.args[1].headers_net THEN call.args[1].headers \cap SecurityHeaderNames ELSE {}

\* ten times the weight of the recommended headers in hs: 10 for a required
\* header, 5 for an optional one
Weight10(hs) ==
    SeqSum([k \in DOMAIN RECOMMENDED_SECURITY_HEADERS |->
              IF RECOMMENDED_SECURITY_HEADERS[k][1] \notin hs THEN 0
              ELSE IF RECOMMENDED_SECURITY_HEADERS[k][2] THEN 10 ELSE 5])

\* the grade the claim gives to the headers seen: score >= 90, 70, 50
ClaimedGrade ==
    LET present == Weight10(HeadersSeen)
        total == Weight10(SecurityHeaderNames)
    IN  IF present * 100 >= 90 * total THEN "A"
        ELSE IF present * 100 >= 70 * total THEN "B"
        ELSE IF present * 100 >= 50 * total THEN "C"
        ELSE "F"

\* C23: with required headers weighted 1 and optional headers 0.5, the
\* score present weight / total weight * 100 gives grade A from 90, B from
\* 70, C from 50 and F below; the "Security headers check" test is PASS for
\* A, PASS for B unless scan_severity is "high" (then WARNING), WARNING for C
\* and FAIL for F.
C23_HeaderGrading ==
    HeadersScanned =>
        /\ HasTest(ret.tests, <<"Security headers check">>,
                   CASE ClaimedGrade = "A" -> "PASS"
                     [] ClaimedGrade = "B" ->
                          IF call.args[2][1] = "high" THEN "WARNING" ELSE "PASS"
                     [] ClaimedGrade = "C" -> "WARNING"
                     [] OTHER -> "FAIL")
        /\ \A i \in DOMAIN ret.tests :
              ret.tests[i].name = <<"Security headers check">> =>
                  ret.tests[i].message = <<"Security headers score: Grade ", ClaimedGrade>>

\* a scan of severity high found the headers worth exactly half of the weight
C23_Witness ==
    /\ HeadersScanned
    /\ call.args[2][1] = "high"
    /\ Weight10(HeadersSeen) * 2 = Weight10(SecurityHeaderNames)
    /\ HasTest(ret.tests, <<"Security headers check">>, "WARNING")

\* a scan of severity high graded the headers B
C23_WitnessGradeB ==
    /\ HeadersScanned
    /\ call.args[2][1] = "high"
    /\ ClaimedGrade = "B"
    /\ HasTest(ret.tests, <<"Security headers check">>, "WARNING")

\* the result of one endpoint is the AND of its sub-tests, and a request that
\* did not connect leaves the single failing test "Network connectivity"
EndpointAggregated(res, ans) ==
    /\ res.passed <=> \A k \in DOMAIN res.tests : res.tests[k].passed = "True"
    /\ ~ans.net =>
          /\ ~res.passed
          /\ Len(res.tests) = 1
          /\ res.tests[1].name = <<"Network connectivity">>
          /\ res.tests[1].passed = "False"

\* the answer given to the j-th endpoint validated by validate_api_endpoints
AnswerOfEndpoint(api, j) == api.answer[discover_api_endpoints(api.probe)[j]]

\* C24: an endpoint's passed is the AND of the passed flags of all the
\* sub-tests emitted for it; when the primary request fails to connect the
\* endpoint result has passed false and the single failing test "Network
\* connectivity"; validate_endpoints reports passed true iff
\* passed_endpoints equals the number of endpoints validated.
C24_ApiAggregation ==
    /\ Returned("validate_endpoint") => EndpointAggregated(ret, call.args[2])
    /\ Returned("validate_api_endpoints") =>
          /\ \A j \in DOMAIN ret.endpoints :
                EndpointAggregated(ret.endpoints[j], AnswerOfEndpoint(call.args[1], j))
          /\ ret.passed_endpoints =
                Cardinality({j \in DOMAIN ret.endpoints : ret.endpoints[j].passed})
          /\ ret.total = Len(ret.endpoints)
          /\ ret.passed <=> ret.passed_endpoints = Len(ret.endpoints)

\* two endpoints validated: one passed, the request to the other did not connect
C24_Witness ==
    /\ Returned("validate_api_endpoints")
    /\ Len(ret.endpoints) = 2
    /\ ret.endpoints[1].passed
    /\ ret.endpoints[2].tests[1].name = <<"Network connectivity">>
    /\ ret.passed_endpoints = 1
    /\ ~ret.passed

\* an endpoint that answered in time to every check but the SLA
C24_WitnessSla ==
    /\ Returned("validate_endpoint")
    /\ ~ret.passed
    /\ \E k \in DOMAIN ret.tests :
          /\ ret.tests[k].name = <<"SLA Response time">> /\ ret.tests[k].passed = "False"
          /\ \A j \in DOMAIN ret.tests \ {k} : ret.tests[j].passed = "True"

\* the tests that the deployment checker emits for an artifact that is
\* optional: a static-assets directory, minified assets, an example next to .env
OptionalArtifactNames ==
    {<<"Static assets directory exists">>, <<"Minified assets check">>,
     <<"Environment example file">>}

DeploymentTests ==
    LET F[k \in 0..Len(results["deployment"].sections)] ==
            IF k = 0 THEN <<>> ELSE F[k - 1] \o results["deployment"].sections[k].tests
    IN  F[Len(results["deployment"].sections)]

MissingOptional(t) == t.name \in OptionalArtifactNames /\ t.passed # "True"
MissingRequired(t) == t.name \notin OptionalArtifactNames /\ t.passed # "True"

\* C25: an artifact that is missing but optional (no static-assets directory,
\* no minified assets, no .env.example next to .env) is reported as a WARNING
\* test, which the orchestrator counts in tests_warned and not in
\* tests_failed; only absent required configuration is reported as FAIL.
C25_OptionalArtifactsWarn ==
    (pc = "done" /\ config.validate_sections = <<"deployment">>) =>
        /\ \A i \in DOMAIN DeploymentTests :
              MissingOptional(DeploymentTests[i]) => DeploymentTests[i].status = "WARNING"
        /\ Summary.tests_warned = Count(DeploymentTests, MissingOptional)
        /\ Summary.tests_failed = Count(DeploymentTests, MissingRequired)

\* the positions of the advice table whose key is a substring of the name
MatchingKeys(name) == {k \in DOMAIN advice_map : KeyInName(advice_map[k][1], name)}

\* the advice of the first such key, the default advice when there is none
ClaimedAdvice(name) ==
    IF MatchingKeys(name) = {} THEN DefaultAdvice
    ELSE advice_map[CHOOSE k \in MatchingKeys(name) : \A j \in MatchingKeys(name) : k <= j][2]

\* C26: the tally attaches a remediation field to every test it counts as
\* warning or as failed, the advice being that of the first advice-table key
\* that is a substring of the test's name and the default advice when no
\* key matches; a test counted as passed gets no remediation field, and no
\* other field (name, status, passed, message) of any test is changed.
C26_RemediationAttached ==
    Returned("_update_test_counts") =>
        /\ Len(ret.tests) = Len(call.args[2])
        /\ \A i \in DOMAIN call.args[2] :
              LET before == call.args[2][i]
                  after == ret.tests[i]
              IN  /\ after.name = before.name /\ after.status = before.status
                  /\ after.passed = before.passed /\ after.message = before.message
                  /\ (CountsAsFailed(before) \/ CountsAsWarned(before)) =>
                        after.remediation = ClaimedAdvice(before.name)
                  /\ CountsAsPassed(before) => after.remediation = None

\* a warning under a name holding two keys got the advice of the key that is
\* first in the table, and a failed test under a name without key the default
C26_Witness ==
    /\ Returned("_update_test_counts")
    /\ Len(ret.tests) = 2
    /\ ret.tests[1].name = <<"Tracking ID support", " / ", "SLA Response time">>
    /\ ret.tests[1].status = "WARNING"
    /\ ret.tests[1].remediation = "Investigate bottleneck using a profiler"
    /\ ret.tests[2].name = <<"Environment file exists">>
    /\ ret.tests[2].passed = "False"
    /\ ret.tests[2].remediation = DefaultAdvice

\* a test counted as passed in spite of its status FAIL was left without advice
C26_WitnessPassed ==
    /\ Returned("_update_test_counts")
    /\ \E i \in DOMAIN ret.tests :
          /\ ret.tests[i].status = "FAIL" /\ ret.tests[i].passed = "True"
          /\ ret.tests[i].remediation = None

\* the tests held by the entry of results under key, in one list
StoredTestListOf(key) ==
    LET r == results[key]
        Flat(groups) ==
            LET F[k \in 0..Len(groups)] == IF k = 0 THEN <<>> ELSE F[k - 1] \o groups[k].tests
            IN  F[Len(groups)]
    IN  CASE key = "performance" -> r.load_test.tests
          [] key = "api" -> Flat(r.endpoints.endpoints)
          [] key = "deployment" -> Flat(r.sections)
          [] key = "summary" -> <<>>
          [] OTHER -> r.tests

\* the test falls into exactly one of the three classes of the tally
InOneClass(t) ==
    Cardinality({c \in {"passed", "failed", "warned"} :
                    \/ c = "passed" /\ CountsAsPassed(t)
                    \/ c = "failed" /\ CountsAsFailed(t)
                    \/ c = "warned" /\ CountsAsWarned(t)}) = 1

\* C27: after every section and in the final summary, total_tests ==
\* tests_passed + tests_failed + tests_warned: every test that a checker
\* emits falls into exactly one of the three counters and none is counted in
\* total only.
C27_TallyPartition ==
    /\ total_tests = passed_tests + failed_tests + warning_tests
    /\ \A key \in DOMAIN results :
          \A i \in DOMAIN StoredTestListOf(key) : InOneClass(StoredTestListOf(key)[i])
    /\ HasSummary =>
          Summary.total_tests
              = Summary.tests_passed + Summary.tests_failed + Summary.tests_warned

\* a finished run that counted tests of both shapes and in each of the three
\* counters
C27_Witness ==
    /\ pc = "done" /\ HasSummary
    /\ Summary.tests_passed > 0 /\ Summary.tests_failed > 0 /\ Summary.tests_warned > 0
    /\ {"security", "deployment"} \subseteq DOMAIN results
    /\ Summary.total_tests
          = Summary.tests_passed + Summary.tests_failed + Summary.tests_warned

\* the passed flag of the result stored under key
SectionPassed(key) ==
    CASE key = "performance" -> results[key].load_test.passed
      [] key = "api" -> results[key].endpoints.passed
      [] OTHER -> results[key].passed

\* C28: if the result of any enabled section has passed == false (the paths
\* where a checker catches an internal exception and returns an error field,
\* or returns early, included), then the summary has tests_failed > 0 and
\* production_ready == false.
C28_SectionVerdictConsistent ==
    (pc = "done" /\ HasSummary) =>
        \A key \in DOMAIN results \ {"summary"} :
            ~SectionPassed(key) => Summary.tests_failed > 0 /\ ~Summary.production_ready

(***************************************************************************)
(* run_validations called again on the same ProductionValidator            *)
(* (specification SpecRuns): the configuration is the one loaded by        *)
(* __init__, the counters and the results are the attributes left by the   *)
(* call before.                                                            *)
(***************************************************************************)
MaxRuns == 2

\* the calls of run_validations so far
Runs ==
    IF pc = "idle" THEN 0
    ELSE 1 + Cardinality({i \in DOMAIN ran : ran[i] = "run_validations"})

InitRuns == Init /\ Len(config.validate_sections) <= MaxSections

\* run_validations is called on a validator whose run has finished
CallAgain ==
    /\ pc = "done" /\ Runs < MaxRuns
    /\ pc' = SectionOrder[1]
    /\ ran' = Append(ran, "run_validations")
    /\ UNCHANGED <<config, results, passed_tests, failed_tests, warning_tests, total_tests,
                   observed, call, ret, load, workers, all_results, load_result>>

NextRuns == Next \/ CallAgain

SpecRuns == InitRuns /\ [][NextRuns]_vars

RECURSIVE StoredInClass(_, _)
\* the number of the tests stored under keys that fall into class
StoredInClass(keys, class) ==
    IF keys = {} THEN 0
    ELSE LET k == CHOOSE x \in keys : TRUE
             tests == StoredTestListOf(k)
         IN  (CASE class = "passed" -> Count(tests, CountsAsPassed)
                [] class = "failed" -> Count(tests, CountsAsFailed)
                [] class = "warned" -> Count(tests, CountsAsWarned)
                [] OTHER -> Len(tests))
             + StoredInClass(keys \ {k}, class)

\* C29: after any number of calls of run_validations on the same
\* ProductionValidator, the summary's total_tests, tests_passed, tests_failed
\* and tests_warned equal the counts of the tests contained in the results of
\* the latest run; counts of an earlier run are not carried into a later
\* summary.
C29_RunFreshness ==
    pc = "done" =>
        /\ Summary.total_tests = StoredInClass(DOMAIN results, "total")
        /\ Summary.tests_passed = StoredInClass(DOMAIN results, "passed")
        /\ Summary.tests_failed = StoredInClass(DOMAIN results, "failed")
        /\ Summary.tests_warned = StoredInClass(DOMAIN results, "warned")

\* the same for the first call alone
C29_FirstRunFresh ==
    (pc = "done" /\ Runs = 1) =>
        /\ Summary.total_tests = StoredInClass(DOMAIN results, "total")
        /\ Summary.tests_passed = StoredInClass(DOMAIN results, "passed")
        /\ Summary.tests_failed = StoredInClass(DOMAIN results, "failed")
        /\ Summary.tests_warned = StoredInClass(DOMAIN results, "warned")

\* the load test made requests and none of them was answered: every request
\* raised (a connection error or a timeout), no response time was recorded
NoResponseReceived ==
    /\ LoadTestRan
    /\ \E k \in DOMAIN call.args[1].all_results : call.args[1].all_results[k].requests > 0
    /\ \A k \in DOMAIN call.args[1].all_results :
          call.args[1].all_results[k].response_times = <<>>

\* C30: in a load test where no response was received at all (every request
\* failed with a connection error or a timeout, so response_times is empty),
\* the tests "Average response time" and "95th percentile response time" are
\* not reported as PASS.
C30_LatencyTestsNeedData ==
    NoResponseReceived =>
        /\ ~HasTest(ret.tests, <<"Average response time">>, "PASS")
        /\ ~HasTest(ret.tests, <<"95th percentile response time">>, "PASS")

(***************************************************************************)
(* The load test with its workers as threads (specification SpecLoad).     *)
(* A worker thread crashes only on an exception other than                 *)
(* requests.RequestException, which no outcome of a request raises; the    *)
(* "except Exception" around future.result() is therefore never taken.     *)
(***************************************************************************)
\* at most this many requests are issued in one load test
MaxRequests == 3

\* what a request can do: <<outcome, response time in ms>>
RequestOutcomes == {<<"ok", 100>>, <<"ok", 900>>, <<"status", 100>>, <<"timeout", 0>>}

\* run_load_test is called
InitLoad ==
    /\ OrchestratorIdle
    /\ call = NoCall /\ ret = None
    /\ load \in {[pc |-> "probe", num_users |-> n, duration |-> d, max_response_time |-> 500] :
                    n \in 1..MaxUsers, d \in {0, 1, 2}}
    /\ workers = <<>>
    /\ all_results = <<>>
    /\ load_result = NewLoadResults

OrchestratorUnchanged ==
    UNCHANGED <<config, pc, results, passed_tests, failed_tests, warning_tests, total_tests,
                observed, ran, call, ret>>

\* requests.get(base_url) raises: the accessibility test fails and
\* run_load_test returns
ProbeFails ==
    /\ load.pc = "probe"
    /\ load_result' = LoadProbeFailure
    /\ load' = [load EXCEPT !.pc = "done"]
    /\ UNCHANGED <<workers, all_results>>
    /\ OrchestratorUnchanged

\* the workers are created and submitted to the pool
StartWorkers ==
    /\ load.pc = "probe"
    /\ workers' = [w \in 1..load.num_users |-> [results |-> NewWorkerResults, st |-> "running"]]
    /\ load' = [load EXCEPT !.pc = "running"]
    /\ UNCHANGED <<all_results, load_result>>
    /\ OrchestratorUnchanged

RequestsIssued == SeqSum([w \in DOMAIN workers |-> workers[w].results.requests])

\* a request made on an accumulator that all workers share
WorkerStep_shared(w) ==
    /\ load.pc = "running"
    /\ workers[w].st = "running"
    /\ load.duration > 0
    /\ RequestsIssued < MaxRequests
    /\ \E o \in RequestOutcomes :
          workers' = [v \in DOMAIN workers |->
                         [workers[v] EXCEPT !.results = WorkerRequest(@, o[1], o[2])]]
    /\ UNCHANGED <<load, all_results, load_result>>
    /\ OrchestratorUnchanged

\* a worker whose deadline has not passed makes one request
WorkerStep(w) ==
    /\ load.pc = "running"
    /\ workers[w].st = "running"
    /\ load.duration > 0
    /\ RequestsIssued < MaxRequests
    /\ \E o \in RequestOutcomes :
          workers' = [workers EXCEPT ![w].results = WorkerRequest(@, o[1], o[2])]
    /\ UNCHANGED <<load, all_results, load_result>>
    /\ OrchestratorUnchanged

\* a worker finds its deadline passed and returns its results
WorkerReturns(w) ==
    /\ load.pc = "running"
    /\ workers[w].st = "running"
    /\ workers' = [workers EXCEPT ![w].st = "returned"]
    /\ UNCHANGED <<load, all_results, load_result>>
    /\ OrchestratorUnchanged

\* as_completed yields a worker that returned: its results join all_results
CollectResult(w) ==
    /\ load.pc = "running"
    /\ workers[w].st = "returned"
    /\ all_results' = Append(all_results, workers[w].results)
    /\ workers' = [workers EXCEPT ![w].st = "collected"]
    /\ UNCHANGED <<load, load_result>>
    /\ OrchestratorUnchanged

\* the with block of the pool ends: every worker was collected and the main
\* thread goes on to combine the results
PoolShutsDown ==
    /\ load.pc = "running"
    /\ \A w \in DOMAIN workers : workers[w].st = "collected"
    /\ load' = [load EXCEPT !.pc = "done"]
    /\ UNCHANGED <<workers, all_results>>

\* every worker was collected: the results are combined and judged
FinishLoadTest ==
    /\ PoolShutsDown
    /\ load_result' = LoadOutcome(all_results, load.num_users, load.duration,
                                  load.max_response_time)
    /\ OrchestratorUnchanged

NextLoad ==
    \/ ProbeFails
    \/ StartWorkers
    \/ \E w \in DOMAIN workers : WorkerStep(w)
    \/ \E w \in DOMAIN workers : WorkerReturns(w)
    \/ \E w \in DOMAIN workers : CollectResult(w)
    \/ FinishLoadTest

SpecLoad == InitLoad /\ [][NextLoad]_vars

Merged == load.pc = "done" /\ load_result.has_metrics

\* C5: the merged metrics have requests equal to the sum of the workers'
\* request counts and successful + failed equal to requests, whatever the
\* number of workers, the interleaving of their requests and the outcomes.
C5_MergedCountsExact ==
    Merged =>
        /\ load_result.metrics.requests = RequestsIssued
        /\ load_result.metrics.successful + load_result.metrics.failed
              = load_result.metrics.requests

\* a merge of two workers that both made requests, one of which timed out and
\* one of which got an error status
C5_Witness ==
    /\ Merged
    /\ Len(workers) = 2
    /\ \A w \in DOMAIN workers : workers[w].results.requests > 0
    /\ load_result.metrics.requests = 3
    /\ load_result.metrics.failed = 2
    /\ load_result.metrics.errors = 2
    /\ Len(load_result.metrics.response_times) = 2

(***************************************************************************)
(* The load test under the scheduling the code relies on (specification    *)
(* SpecLoadFair): the pool has one thread for every worker (max_workers =  *)
(* num_users), so every worker runs; the clock passes every deadline and   *)
(* every request returns or times out after 5 s, so a running worker       *)
(* comes to return; as_completed yields every finished future; and the     *)
(* main thread goes on once the pool has shut down.  In SpecLoad the steps *)
(* that satisfy PoolShutsDown are the FinishLoadTest steps, and the two    *)
(* are enabled in the same states.                                         *)
(***************************************************************************)
\* what every step of the load test changes
loadvars == <<load, workers, all_results>>

LoadFairness ==
    /\ \A w \in 1..MaxUsers :
          /\ WF_loadvars(w \in DOMAIN workers /\ WorkerReturns(w))
          /\ WF_loadvars(w \in DOMAIN workers /\ CollectResult(w))
    /\ WF_loadvars(PoolShutsDown)

SpecLoadFair == SpecLoad /\ LoadFairness

\* the base URL answered the probe and the workers were submitted
WorkersStarted == workers # <<>>

\* the four threshold tests were evaluated
ThresholdsEvaluated == load.pc = "done" /\ Len(load_result.tests) = 4

\* a worker that has returned issues no further request
StoppedWorkersStayStopped ==
    [][\A w \in DOMAIN workers :
          workers[w].st # "running" =>
              /\ workers'[w].st # "running"
              /\ workers'[w].results = workers[w].results]_loadvars

\* the results are merged only when every worker has returned and was collected
MergeAfterEveryWorker ==
    [](load.pc = "done" /\ WorkersStarted =>
          /\ \A w \in DOMAIN workers : workers[w].st = "collected"
          /\ Len(all_results) = Len(workers))

\* the merge happens once: what run_load_test returns is the merge of
\* all_results, which holds one entry for every worker, and stays so
MergedOnce ==
    /\ [](load.pc = "done" /\ WorkersStarted =>
            load_result = LoadOutcome(all_results, load.num_users, load.duration,
                                      load.max_response_time))
    /\ [][load.pc = "done" => UNCHANGED loadvars]_loadvars

\* every load test whose workers were started comes to its end
LoadTestTerminates == WorkersStarted ~> load.pc = "done"

\* C16: every worker stops issuing requests and returns once its deadline
\* has passed; the partial results are merged exactly once and only after
\* every worker has terminated; and every run whose base URL is reachable
\* eventually reaches the merge and the evaluation of the thresholds.
C16_TerminationAndMerge ==
    /\ StoppedWorkersStayStopped
    /\ MergeAfterEveryWorker
    /\ MergedOnce
    /\ WorkersStarted ~> ThresholdsEvaluated

\* the record of worker w changes in this step
RecordChanges(w) == workers'[w].results # workers[w].results

\* C17: during the run a step that changes the accumulator record of one
\* worker counts one request in it, as successful or as failed, and changes
\* neither the record of another worker nor the collected and merged
\* results; the records are not touched once their workers have returned.
C17_WorkerIsolation ==
    [][load.pc = "running" =>
          \A w \in DOMAIN workers :
              RecordChanges(w) =>
                  /\ workers[w].st = "running"
                  /\ workers'[w].results.requests = workers[w].results.requests + 1
                  /\ workers'[w].results.successful + workers'[w].results.failed
                        = workers[w].results.successful + workers[w].results.failed + 1
                  /\ \A v \in DOMAIN workers \ {w} : ~RecordChanges(v)
                  /\ UNCHANGED <<all_results, load_result>>]_vars

\* two workers are running and both have made requests, one of them two
C17_Witness ==
    /\ load.pc = "running"
    /\ Len(workers) = 2
    /\ \A w \in DOMAIN workers : workers[w].st = "running"
    /\ workers[1].results.requests = 2
    /\ workers[2].results.requests = 1
    /\ workers[1].results # workers[2].results

====
